---- MODULE Spec2Model ----
(***************************************************************************)
(* Model of the generation dispatch layer of the repository:               *)
(*   - generateText and the retrying entry points built on it              *)
(*     (src/force-twitter-post.js, 602-1973 and 2774-2817);                *)
(*   - generateImage, the RenderNet job poller                             *)
(*     (src/force-twitter-post.js, 1975-2143);                             *)
(*   - the scheduled image publishing loop                                 *)
(*     (src/packages/core/src/services/textGeneration.ts, 108-462).        *)
(*   - one generation request: settings resolution, trimTokens and the     *)
(*     hand-over of the prompt (src/force-twitter-post.js, 343-428,        *)
(*     602-787, 2207-2272).                                                *)
(*   - one call of postImageToTwitter                                      *)
(*     (src/packages/core/src/services/textGeneration.ts, 312-461).        *)
(* Each subsystem has its own specification (SpecRetry, SpecImage,         *)
(* SpecLoop, SpecGen, SpecPost); the variables of the other subsystems     *)
(* stay at their initial values.                                           *)
(***************************************************************************)
EXTENDS Integers, Sequences, FiniteSets, TLC

VARIABLES
    \* ---- one call of a generation entry point ----
    ep,            \* the entry point that was called
    provider,      \* runtime.modelProvider
    textService,   \* runtime.getService(TEXT_GENERATION): "none", "registered"
                   \* (a service that runs the local model) or
                   \* "TextGenerationService" (the class of textGeneration.ts)
    ctxEmpty,      \* whether the caller's context is the empty string
    rpc,           \* position of the call: start, attempt, wait, delegating,
                   \* done, thrown
    retryDelay,    \* the local retryDelay / retryLength, in ms
    hist,          \* what each attempt so far produced: a value, Null or Exception
    waits,         \* the setTimeout delays slept so far, in order
    calls,         \* outbound calls made to the provider transport
    transport,     \* what the transport answered to the latest call
    result,        \* the value returned to the caller
    thrown,        \* the error thrown to the caller
    depth,         \* nested generateText calls made through the service
    stopArg,       \* the stop argument generateText is called with
    sentStop,      \* the stop sequences the latest outbound call carried
    \* ---- one call of generateImage ----
    ipc,           \* position: start, loop, poll, after, fetch, done
    apiKey,        \* runtime.getSetting("RENDERNET_API_KEY") is set
    submitted,     \* how the submission went: none, nokey, rejected, notok, noid, ok
    attempts,      \* the local attempts counter
    sleeps,        \* setTimeout(2000) waits done
    slept,         \* total ms slept
    polls,         \* status requests issued
    lastPoll,      \* what the latest status request produced
    clean,         \* no status request so far was non-OK or rejected
    generationResult, \* the local generationResult (latest status JSON)
    fetches,       \* asset requests issued
    assetFailures, \* asset requests that failed
    imgResult,     \* the object returned by generateImage
    imageModelProvider, \* runtime.imageModelProvider
    job,           \* the job posted: its endpoint and whose settings name
                   \* its model
    \* ---- the scheduled publishing loop ----
    lpc,           \* position: boot, off, start, prompt, image, save, post,
                   \* mark, sleeping
    enableSetting, \* the setting ENABLE_SCHEDULED_IMAGES
    minSetting,    \* the setting IMAGE_POST_INTERVAL_MIN
    maxSetting,    \* the setting IMAGE_POST_INTERVAL_MAX
    cache,         \* the cache entry twitter/scheduled/lastImagePost
    cacheBefore,   \* that entry when the current cycle started
    clock,         \* Date.now(), in ms
    lastPostTimestamp, \* locals of the current cycle
    randomMinutes,
    delay,
    now,
    timers,        \* the pending setTimeout callbacks: fire time and delay
    cycles,        \* cycles started so far
    draws,         \* Math.random() calls of the current cycle
    steps,         \* the steps the current cycle has run
    postHow,       \* how the posting of the current cycle went
    publishOk,     \* the publish call of the current cycle succeeded
    pubTimes,      \* the times of the publish calls so far
    cycleEnd,      \* how the latest finished cycle ended: none, normal, error
    allOk,         \* no step of any cycle so far has failed
    failed,        \* the step of the current cycle that failed, or none
    \* ---- one generation request ----
    gpc,           \* position: idle, start, trim, dispatch, done
    gfn,           \* the function called: trimTokens, generateText,
                   \* generateObject
    gcontext,      \* the context argument, a sequence of characters
    gmaxTokens,    \* the maxTokens argument of a direct trimTokens call
    modelConfiguration, \* runtime.character.settings.modelConfig
    tokenizer,     \* whether the tokenizer works: ok, encodeThrows,
                   \* decodeThrows
    used,          \* the generation parameters the request resolved
    prompt,        \* the prompt handed to the provider transport
    gresult,       \* what the call returned or threw
    \* ---- one call of postImageToTwitter ----
    ppc,           \* position: idle, start, posting, login, sending, done
    caption,       \* the length of the caption
    username,      \* TWITTER_USERNAME is set
    password,      \* TWITTER_PASSWORD is set
    enablePosting, \* the setting ENABLE_IMAGE_POSTING
    imageExists,   \* fs.existsSync(imagePath)
    services,      \* runtime.getAllServices(), in order
    clients,       \* runtime.clients, in order
    twitterClient, \* the integration the probe chose
    path,          \* the publish path taken: none, integration, direct
    tweetText,     \* the text handed to the publish call
    postTweets,    \* postTweet calls made
    sendTweets,    \* sendTweet calls made
    outcome,       \* how the call ended
    \* ---- two generation requests running interleaved ----
    table,         \* the static settings table, by model class
    reqs,          \* the two requests: arguments, position, locals, result
    \* ---- one call of splitText ----
    spc,           \* position: idle, start, loop, done
    content,       \* the content argument, a sequence of characters
    chunkSize,     \* the chunkSize argument
    bleed,         \* the bleed argument
    start,         \* the local start
    chunks,        \* the local chunks
    \* ---- one dispatch on the model provider ----
    dpc,           \* position: idle, start, done
    dfn,           \* the dispatcher: generateText or handleProvider
    dprovider,     \* runtime.modelProvider
    doutcome       \* how the dispatch ended

retryVars == <<ep, provider, textService, ctxEmpty, rpc, retryDelay, hist,
               waits, calls, transport, result, thrown, depth, stopArg,
               sentStop>>
imageVars == <<ipc, apiKey, submitted, attempts, sleeps, slept, polls, lastPoll,
               clean, generationResult, fetches, assetFailures, imgResult,
               imageModelProvider, job>>
loopVars == <<lpc, enableSetting, minSetting, maxSetting, cache, cacheBefore,
              clock, lastPostTimestamp, randomMinutes, delay, now, timers,
              cycles, draws, steps, postHow, publishOk, pubTimes, cycleEnd,
              allOk, failed>>
genVars == <<gpc, gfn, gcontext, gmaxTokens, modelConfiguration, tokenizer,
             used, prompt, gresult>>
postVars == <<ppc, caption, username, password, enablePosting, imageExists,
              services, clients, twitterClient, path, tweetText, postTweets,
              sendTweets, outcome>>
pairVars == <<table, reqs>>
splitVars == <<spc, content, chunkSize, bleed, start, chunks>>
dispatchVars == <<dpc, dfn, dprovider, doutcome>>
vars == <<retryVars, imageVars, loopVars, genVars, postVars, pairVars,
         splitVars, dispatchVars>>
notRetryVars == <<imageVars, loopVars, genVars, postVars, pairVars,
                  splitVars, dispatchVars>>
notImageVars == <<retryVars, loopVars, genVars, postVars, pairVars,
                  splitVars, dispatchVars>>
notLoopVars == <<retryVars, imageVars, genVars, postVars, pairVars,
                 splitVars, dispatchVars>>
notGenVars == <<retryVars, imageVars, loopVars, postVars, pairVars,
                splitVars, dispatchVars>>
notPostVars == <<retryVars, imageVars, loopVars, genVars, pairVars,
                 splitVars, dispatchVars>>
notPairVars == <<retryVars, imageVars, loopVars, genVars, postVars,
                 splitVars, dispatchVars>>
notSplitVars == <<retryVars, imageVars, loopVars, genVars, postVars,
                  pairVars, dispatchVars>>
notDispatchVars == <<retryVars, imageVars, loopVars, genVars, postVars,
                     pairVars, splitVars>>

Null == "null"
Undefined == "undefined"
Exception == "exception"

\* ------------------------------------------------------------------ bounds
\* Attempts one call of a retrying entry point is followed for.
MaxAttempts == 4
\* Image items (type "image", with a url) a status response's media list holds.
MaxMedia == 2
\* Cycles of the publishing loop that are followed.
MaxCycles == 3
\* Math.random() takes the values k / RandomSteps, k in 0..RandomSteps-1.
RandomSteps == 3
\* Characters of the longest context.
MaxLen == 5
\* Nested generateText calls through the text generation service followed.
MaxDepth == 3
\* Characters of the longest content that is split.
MaxContent == 4
\* Chunks one call of splitText is followed for.
MaxChunks == 5

\* ------------------------------------------------------------- generateText
\* The retrying entry points.
EntryPoints ==
    {"generateShouldRespond", "generateTrueOrFalse", "generateTextArray",
     "generateObjectDeprecated", "generateObjectArray",
     "generateMessageResponse", "generateTweetActions"}

\* Provider classes: OPENAI stands for the strategies that call aiGenerateText,
\* LLAMALOCAL delegates to the text generation service, FAL has model settings
\* but no case in generateText's switch, UNKNOWN has no registered settings.
Providers == {"OPENAI", "LLAMALOCAL", "FAL", "UNKNOWN"}

\* Classes of text a provider returns: text the expected shape parses from,
\* prose holding quoted "action" and "text" fields but no parsable JSON, and
\* text with neither, and a negative answer: text that parses to false or to
\* an empty array.
Texts == {"good", "fields", "junk", "negative"}

\* Errors the provider transport raises.
TransportErrors == {"ETIMEDOUT", "HTTP500"}

TransportOutcomes == Texts \cup TransportErrors

\* getModelSettings: the settings of a provider, or failure when the provider
\* has no registered defaults.
getModelSettings(p) ==
    IF p = "UNKNOWN" THEN [ok |-> FALSE, error |-> "UnsupportedProvider"]
    ELSE [ok |-> TRUE, error |-> Null]

Returned(text, n) == [kind |-> "text", val |-> text, calls |-> n]
Threw(error, n) == [kind |-> "throw", val |-> error, calls |-> n]
\* The call is handed to TextGenerationService.queueTextCompletion, which
\* calls generateText again with the same runtime.
Delegated == [kind |-> "delegate", val |-> "queueTextCompletion", calls |-> 0]

\* Mutant: the service of textGeneration.ts runs the model itself.
queueTextCompletion_local(svc, out) ==
    IF out \in TransportErrors THEN Threw(out, 1) ELSE Returned(out, 1)

\* textGenerationService.queueTextCompletion(context, ...): a service that
\* runs the local model makes the one call; TextGenerationService calls
\* generateText.
queueTextCompletion(svc, out) ==
    IF svc = "TextGenerationService" THEN Delegated
    ELSE IF out \in TransportErrors THEN Threw(out, 1) ELSE Returned(out, 1)

\* A provider strategy: exactly one outbound call; its error propagates.
dispatch(out) ==
    IF out \in TransportErrors THEN Threw(out, 1) ELSE Returned(out, 1)

\* Mutant: a failed provider call is tried once more before the error
\* (of the second call) is thrown.
generateText_retrying(p, svc, empty, out) ==
    IF empty THEN Returned("", 0)
    ELSE IF ~getModelSettings(p).ok THEN Threw(getModelSettings(p).error, 0)
    ELSE IF p = "OPENAI"
         THEN IF out \in TransportErrors THEN Threw(out, 2) ELSE Returned(out, 1)
    ELSE IF p = "LLAMALOCAL"
         THEN IF svc = "none" THEN Threw("Text generation service not found", 0)
              ELSE IF svc = "TextGenerationService" THEN Delegated
              ELSE IF out \in TransportErrors THEN Threw(out, 2)
              ELSE Returned(out, 1)
    ELSE Threw("Unsupported provider", 0)

\* generateText: what one invocation returns or throws, and the outbound calls
\* it makes, when the transport would answer `out`.
generateText(p, svc, empty, out) ==
    IF empty THEN Returned("", 0)
    ELSE IF ~getModelSettings(p).ok THEN Threw(getModelSettings(p).error, 0)
    ELSE IF p = "OPENAI" THEN dispatch(out)
    ELSE IF p = "LLAMALOCAL"
         THEN IF svc = "none" THEN Threw("Text generation service not found", 0)
              ELSE queueTextCompletion(svc, out)
    ELSE Threw("Unsupported provider", 0)

\* ------------------------------------------------------------------ parsing
\* The parsers return the parsed value, or Null when the text does not match.
parseShouldRespondFromText(t) == IF t = "good" THEN "RESPOND" ELSE Null
parseBooleanFromText(t) ==
    IF t = "good" THEN "true" ELSE IF t = "negative" THEN "false" ELSE Null
parseJsonArrayFromText(t) ==
    IF t = "good" THEN "array" ELSE IF t = "negative" THEN "[]" ELSE Null
parseJSONObjectFromText(t) == IF t = "good" THEN "object" ELSE Null
parseActionResponseFromText(t) == IF t = "good" THEN "actions" ELSE Null

\* The parser each entry point applies to the response.
parsedResponse(e, t) ==
    CASE e = "generateShouldRespond" -> parseShouldRespondFromText(t)
      [] e = "generateTrueOrFalse" -> parseBooleanFromText(t)
      [] e \in {"generateTextArray", "generateObjectArray"} ->
            parseJsonArrayFromText(t)
      [] e \in {"generateObjectDeprecated", "generateMessageResponse"} ->
            parseJSONObjectFromText(t)
      [] e = "generateTweetActions" -> parseActionResponseFromText(t)

\* generateMessageResponse's fallback: when the JSON parse gives nothing, a
\* Content object is built from regex matches of the action and text fields.
extractedContent(t) == IF t = "fields" THEN "extracted" ELSE Null

\* if (value): false and null do not pass, an empty array does.
truthy(v) == v \notin {Null, "false"}

\* Mutant: every entry point tests the parsed value for truthiness.
accepts_truthy(e, v) == truthy(v)

\* The test an entry point applies to the parsed value before it returns it:
\* generateTrueOrFalse `parsedResponse !== null`, the others `if
\* (parsedResponse)`.
accepts(e, v) == IF e = "generateTrueOrFalse" THEN v # Null ELSE truthy(v)

\* What one attempt yields to the loop: a value, Null or Exception.
attemptYield(e, r) ==
    IF r.kind = "throw" THEN Exception
    ELSE IF accepts(e, parsedResponse(e, r.val)) THEN parsedResponse(e, r.val)
    ELSE IF e = "generateMessageResponse" THEN extractedContent(r.val)
    ELSE Null

\* ------------------------------------------------- the retrying entry points
\* Entry points that resolve the model settings before entering the loop
\* (outside the try block).
resolvesSettingsFirst == {"generateTrueOrFalse", "generateMessageResponse"}

\* Entry points that return at once on an empty context.
checksContextFirst ==
    {"generateTextArray", "generateObjectDeprecated", "generateObjectArray"}

\* What such an entry point returns on an empty context.
emptyReturn(e) == IF e = "generateObjectDeprecated" THEN Null ELSE "[]"

\* Mutant: the loop gives up after three attempts.
loopContinues_bounded(e, n) == n < 3

\* while (true): the loop condition after n attempts.
loopContinues(e, n) == TRUE

\* Whether the loop sleeps after an attempt that yielded y (Null or Exception):
\* generateMessageResponse sleeps only in its catch block and `continue`s on a
\* response it cannot parse; the others sleep after every failed attempt.
sleepsAfter(e, y) ==
    IF e = "generateMessageResponse" THEN y = Exception ELSE TRUE

\* The delay slept when the local delay is d: generateMessageResponse doubles
\* retryLength before the setTimeout, the others after it.
sleepDelay(e, d) == IF e = "generateMessageResponse" THEN 2 * d ELSE d

\* A stop sequence is a text string; generateTrueOrFalse also puts an array
\* holding a string among them.
Str(x) == [type |-> "string", val |-> x]
Arr(x) == [type |-> "array", val |-> x]
\* A stop argument: absent, or a list of stop sequences.
NoStop == [given |-> FALSE, seqs |-> <<>>]
Given(q) == [given |-> TRUE, seqs |-> q]

\* modelSettings.stop
settingsStop == <<Str("</s>")>>

\* The stop argument an entry point calls generateText with:
\* generateTrueOrFalse passes Array.from(new Set([...modelSettings.stop,
\* ["\n"]])), the other entry points none.
entryStop(e) ==
    IF e = "generateTrueOrFalse" THEN Given(settingsStop \o <<Arr("\\n")>>)
    ELSE NoStop

\* const _stop = stop || modelSettings.stop
resolvedStop(stop) == IF stop.given THEN stop.seqs ELSE settingsStop

\* The stop sequences the provider strategy hands to its transport: only the
\* LLAMALOCAL strategy passes _stop on.
forwarded(p, stop) ==
    IF p = "LLAMALOCAL" THEN Given(resolvedStop(stop)) ELSE NoStop

\* The code before the loop.
Enter ==
    /\ rpc = "start"
    /\ ep \in EntryPoints
    /\ retryDelay' = 1000
    /\ IF ep \in resolvesSettingsFirst /\ ~getModelSettings(provider).ok
       THEN /\ rpc' = "thrown"
            /\ thrown' = getModelSettings(provider).error
            /\ UNCHANGED result
       ELSE IF ep \in checksContextFirst /\ ctxEmpty
       THEN /\ rpc' = "done"
            /\ result' = emptyReturn(ep)
            /\ UNCHANGED thrown
       ELSE /\ rpc' = "attempt"
            /\ UNCHANGED <<result, thrown>>
    /\ stopArg' = entryStop(ep)
    /\ UNCHANGED notRetryVars
    /\ UNCHANGED <<ep, provider, textService, ctxEmpty, hist, waits, calls,
                   transport, sentStop, depth>>

\* One pass of the try block: generateText, then the parse.
Attempt(out) ==
    /\ rpc = "attempt"
    /\ Len(hist) < MaxAttempts
    /\ IF ~loopContinues(ep, Len(hist))
       THEN /\ rpc' = "done"
            /\ result' = Null
            /\ UNCHANGED <<hist, calls, transport, sentStop, depth>>
       ELSE LET r == generateText(provider, textService, ctxEmpty, out)
                y == attemptYield(ep, r)
            IN  IF r.kind = "delegate"
                THEN /\ rpc' = "delegating"
                     /\ depth' = 1
                     /\ UNCHANGED <<hist, calls, transport, sentStop, result>>
                ELSE /\ hist' = Append(hist, y)
                     /\ calls' = calls + r.calls
                     /\ transport' = IF r.calls > 0 THEN out ELSE transport
                     /\ sentStop' = IF r.calls > 0
                                    THEN forwarded(provider, stopArg) ELSE sentStop
                     /\ IF y \notin {Null, Exception}
                        THEN rpc' = "done" /\ result' = y
                        ELSE /\ rpc' = IF sleepsAfter(ep, y) THEN "wait"
                                       ELSE "attempt"
                             /\ UNCHANGED result
                     /\ UNCHANGED depth
    /\ UNCHANGED stopArg
    /\ UNCHANGED notRetryVars
    /\ UNCHANGED <<ep, provider, textService, ctxEmpty, retryDelay, waits,
                   thrown>>

\* The setTimeout between two attempts and the doubling of the delay.
Wait ==
    /\ rpc = "wait"
    /\ waits' = Append(waits, sleepDelay(ep, retryDelay))
    /\ retryDelay' = 2 * retryDelay
    /\ rpc' = "attempt"
    /\ UNCHANGED stopArg
    /\ UNCHANGED notRetryVars
    /\ UNCHANGED <<ep, provider, textService, ctxEmpty, hist, calls, transport, sentStop,
                   result, thrown, depth>>

\* A direct call of generateText (the raw text primitive).
CallGenerateText(out) ==
    /\ rpc = "start"
    /\ ep = "generateText"
    /\ LET r == generateText(provider, textService, ctxEmpty, out)
       IN  /\ calls' = calls + r.calls
           /\ transport' = IF r.calls > 0 THEN out ELSE transport
           /\ sentStop' = IF r.calls > 0
                          THEN forwarded(provider, stopArg) ELSE sentStop
           /\ IF r.kind = "delegate"
              THEN rpc' = "delegating" /\ depth' = 1 /\ UNCHANGED <<result, thrown>>
              ELSE IF r.kind = "throw"
              THEN rpc' = "thrown" /\ thrown' = r.val /\ UNCHANGED <<result, depth>>
              ELSE rpc' = "done" /\ result' = r.val /\ UNCHANGED <<thrown, depth>>
    /\ UNCHANGED stopArg
    /\ UNCHANGED notRetryVars
    /\ UNCHANGED <<ep, provider, textService, ctxEmpty, retryDelay, hist, waits>>

\* TextGenerationService.queueTextCompletion: generateText is called with the
\* runtime's provider, which is LLAMALOCAL still, and hands the call to the
\* service again; no level returns before the one below it.
QueueTextCompletion(out) ==
    /\ rpc = "delegating"
    /\ depth < MaxDepth
    /\ LET r == generateText(provider, textService, FALSE, out)
       IN  /\ calls' = calls + r.calls
           /\ transport' = IF r.calls > 0 THEN out ELSE transport
           /\ sentStop' = IF r.calls > 0
                          THEN forwarded(provider, stopArg) ELSE sentStop
           /\ IF r.kind = "delegate"
              THEN rpc' = "delegating" /\ depth' = depth + 1
                   /\ UNCHANGED <<result, thrown>>
              ELSE IF r.kind = "throw"
              THEN rpc' = "thrown" /\ thrown' = r.val /\ UNCHANGED <<result, depth>>
              ELSE rpc' = "done" /\ result' = r.val /\ UNCHANGED <<thrown, depth>>
    /\ UNCHANGED stopArg
    /\ UNCHANGED notRetryVars
    /\ UNCHANGED <<ep, provider, textService, ctxEmpty, retryDelay, hist, waits>>

InitRetry ==
    /\ ep \in EntryPoints \cup {"generateText"}
    /\ provider \in Providers
    /\ textService \in {"none", "registered", "TextGenerationService"}
    /\ ctxEmpty \in BOOLEAN
    /\ rpc = "start"
    /\ retryDelay = 0
    /\ hist = <<>>
    /\ waits = <<>>
    /\ calls = 0
    /\ transport = "none"
    /\ result = Undefined
    /\ thrown = "none"
    /\ depth = 0
    /\ stopArg \in (IF ep = "generateText" THEN {NoStop, Given(<<Str("END")>>)}
                    ELSE {NoStop})
    /\ sentStop = NoStop

\* No entry point has been called.
RetryIdle ==
    /\ ep = "generateText"
    /\ provider = "OPENAI"
    /\ textService = "none"
    /\ ctxEmpty = FALSE
    /\ rpc = "idle"
    /\ retryDelay = 0
    /\ hist = <<>>
    /\ waits = <<>>
    /\ calls = 0
    /\ transport = "none"
    /\ result = Undefined
    /\ thrown = "none"
    /\ depth = 0
    /\ stopArg = NoStop
    /\ sentStop = NoStop

NextRetry ==
    \/ Enter
    \/ \E out \in TransportOutcomes : Attempt(out)
    \/ Wait
    \/ \E out \in TransportOutcomes : CallGenerateText(out)
    \/ \E out \in TransportOutcomes : QueueTextCompletion(out)

\* ------------------------------------------------------------ generateImage
\* Mutant: the ceiling is off by one.
maxAttempts_off == 30 + 1

\* const maxAttempts = 30
maxAttempts == 30
\* setTimeout(resolve, 2000)
pollInterval == 2000

NoJson == [defined |-> FALSE, result |-> Undefined, hasMedia |-> FALSE, images |-> 0]

\* The status documents the provider can answer with: data.result, and
\* data.media (absent, or a list holding `images` items of type "image" with a
\* url; other items are filtered out).
StatusJsons ==
    {[defined |-> TRUE, result |-> r, hasMedia |-> FALSE, images |-> 0] :
        r \in {"completed", "failed", "pending"}}
    \cup
    {[defined |-> TRUE, result |-> r, hasMedia |-> TRUE, images |-> n] :
        r \in {"completed", "failed", "pending"}, n \in 0..MaxMedia}

Failure(e) == [success |-> FALSE, data |-> <<>>, error |-> e]
Success(d) == [success |-> TRUE, data |-> d, error |-> Null]

\* The bytes behind the i-th image url.
blob(i) == <<i, i + 1>>
\* Buffer.from(arrayBuffer).toString("base64")
base64(bytes) == [encoding |-> "base64", of |-> bytes]
\* Mutant: the bytes are put in the URL without the base64 conversion.
dataUrl_unencoded(i) ==
    [prefix |-> "data:image/png;base64,",
     payload |-> [encoding |-> "binary", of |-> blob(i)]]

\* `data:image/png;base64,${base64}`
dataUrl(i) == [prefix |-> "data:image/png;base64,", payload |-> base64(blob(i))]

\* Mutant: the submit response is not checked for a generation id.
submitOutcome_unchecked(key, resp) ==
    IF ~key
    THEN [pc |-> "done", how |-> "nokey", res |-> Failure("RENDERNET_API_KEY is not set")]
    ELSE CASE resp = "rejected" ->
                [pc |-> "done", how |-> resp, res |-> Failure("fetch failed")]
           [] resp = "notok" ->
                [pc |-> "done", how |-> resp, res |-> Failure("RenderNet API error")]
           [] OTHER -> [pc |-> "loop", how |-> resp, res |-> Failure(Undefined)]

\* The API key check, the POST of the job and the checks of its response:
\* where the call goes next and, when it ends here, what it returns.
submitOutcome(key, resp) ==
    IF ~key
    THEN [pc |-> "done", how |-> "nokey", res |-> Failure("RENDERNET_API_KEY is not set")]
    ELSE CASE resp = "rejected" ->
                [pc |-> "done", how |-> resp, res |-> Failure("fetch failed")]
           [] resp = "notok" ->
                [pc |-> "done", how |-> resp, res |-> Failure("RenderNet API error")]
           [] resp = "noid" ->
                [pc |-> "done", how |-> resp,
                 res |-> Failure("Invalid response format from RenderNet AI")]
           [] resp = "ok" -> [pc |-> "loop", how |-> resp, res |-> Failure(Undefined)]

\* The image providers a runtime can be configured with.
ImageProviders == {"OPENAI", "RENDERNET", "FAL"}
NoJob == [url |-> "none", settingsOf |-> "none"]

\* Mutant: the configured image provider chooses the pipeline.
imagePipeline_configured(p) == p

\* The pipeline used: runtime.imageModelProvider is read for the log only.
imagePipeline(p) == "RENDERNET"

\* The endpoint of a pipeline.
endpoint(pipeline) ==
    IF pipeline = "RENDERNET"
    THEN "https://api.rendernet.ai/pub/v1/generations"
    ELSE "other"

\* The job posted: rendernetUrl, and the model named by
\* getImageModelSettings(ModelProviderName.RENDERNET).
rendernetJob(p) ==
    [url |-> endpoint(imagePipeline(p)), settingsOf |-> imagePipeline(p)]

\* The submission of the job.
Submit(resp) ==
    /\ ipc = "start"
    /\ ipc' = submitOutcome(apiKey, resp).pc
    /\ submitted' = submitOutcome(apiKey, resp).how
    /\ imgResult' = submitOutcome(apiKey, resp).res
    /\ job' = IF apiKey THEN rendernetJob(imageModelProvider) ELSE job
    /\ UNCHANGED notImageVars
    /\ UNCHANGED <<apiKey, imageModelProvider, attempts, sleeps, slept, polls, lastPoll, clean,
                   generationResult, fetches, assetFailures>>

\* while (attempts < maxAttempts): attempts++ and the 2 s wait.
PollWait ==
    /\ ipc = "loop"
    /\ attempts < maxAttempts
    /\ attempts' = attempts + 1
    /\ sleeps' = sleeps + 1
    /\ slept' = slept + pollInterval
    /\ ipc' = "poll"
    /\ UNCHANGED notImageVars
    /\ UNCHANGED <<submitted, assetFailures>>
    /\ UNCHANGED <<apiKey, imageModelProvider, job, polls, lastPoll, clean, generationResult, fetches,
                   imgResult>>

\* The loop condition fails.
LoopExit ==
    /\ ipc = "loop"
    /\ ~(attempts < maxAttempts)
    /\ ipc' = "after"
    /\ UNCHANGED notImageVars
    /\ UNCHANGED <<submitted, assetFailures>>
    /\ UNCHANGED <<apiKey, imageModelProvider, job, attempts, sleeps, slept, polls, lastPoll, clean,
                   generationResult, fetches, imgResult>>

\* Mutant: a failed job is logged and polling goes on.
onFailed_continue(j) == [pc |-> "loop", res |-> Failure(Null)]

\* What the loop does on a status document reporting "failed".
onFailed(j) == [pc |-> "done", res |-> Failure("RenderNet generation failed")]

\* A status request whose fetch rejects: the outer catch returns the error.
PollRejected ==
    /\ ipc = "poll"
    /\ polls' = polls + 1
    /\ lastPoll' = "rejected"
    /\ clean' = FALSE
    /\ ipc' = "done"
    /\ imgResult' = Failure("fetch failed")
    /\ UNCHANGED notImageVars
    /\ UNCHANGED <<submitted, assetFailures>>
    /\ UNCHANGED <<apiKey, imageModelProvider, job, attempts, sleeps, slept, generationResult, fetches>>

\* A status request answered with a non-OK response: continue.
PollNotOk ==
    /\ ipc = "poll"
    /\ polls' = polls + 1
    /\ lastPoll' = "notok"
    /\ clean' = FALSE
    /\ ipc' = "loop"
    /\ UNCHANGED notImageVars
    /\ UNCHANGED <<submitted, assetFailures>>
    /\ UNCHANGED <<apiKey, imageModelProvider, job, attempts, sleeps, slept, generationResult, fetches,
                   imgResult>>

\* A status request answered with the document j.
PollStatus(j) ==
    /\ ipc = "poll"
    /\ polls' = polls + 1
    /\ lastPoll' = j.result
    /\ generationResult' = j
    /\ CASE j.result = "completed" -> ipc' = "after" /\ UNCHANGED imgResult
         [] j.result = "failed" ->
               /\ ipc' = onFailed(j).pc
               /\ imgResult' = IF onFailed(j).pc = "done" THEN onFailed(j).res
                               ELSE imgResult
         [] OTHER -> ipc' = "loop" /\ UNCHANGED imgResult
    /\ UNCHANGED notImageVars
    /\ UNCHANGED <<submitted, assetFailures>>
    /\ UNCHANGED <<apiKey, imageModelProvider, job, attempts, sleeps, slept, clean, fetches>>

\* The check of generationResult after the loop.
AfterLoop ==
    /\ ipc = "after"
    /\ IF ~generationResult.defined \/ ~generationResult.hasMedia
       THEN /\ ipc' = "done"
            /\ imgResult' =
                 Failure("Failed to get valid generation result from RenderNet")
       ELSE ipc' = "fetch" /\ UNCHANGED imgResult
    /\ UNCHANGED notImageVars
    /\ UNCHANGED <<submitted, assetFailures>>
    /\ UNCHANGED <<apiKey, imageModelProvider, job, attempts, sleeps, slept, polls, lastPoll, clean,
                   generationResult, fetches>>

\* The fetch of every image item and its conversion (Promise.all); ok[i] is
\* whether the i-th image request succeeds.
FetchAssets(ok) ==
    /\ ipc = "fetch"
    /\ fetches' = fetches + generationResult.images
    /\ assetFailures' = Cardinality({i \in DOMAIN ok : ~ok[i]})
    /\ UNCHANGED submitted
    /\ ipc' = "done"
    /\ imgResult' =
         IF \E i \in DOMAIN ok : ~ok[i] THEN Failure("Failed to fetch image")
         ELSE IF generationResult.images = 0
         THEN Failure("No images generated by RenderNet")
         ELSE Success([i \in 1..generationResult.images |-> dataUrl(i)])
    /\ UNCHANGED notImageVars
    /\ UNCHANGED <<apiKey, imageModelProvider, job, attempts, sleeps, slept, polls, lastPoll, clean,
                   generationResult>>

InitImage ==
    /\ ipc = "start"
    /\ apiKey \in BOOLEAN
    /\ submitted = "none"
    /\ assetFailures = 0
    /\ attempts = 0
    /\ sleeps = 0
    /\ slept = 0
    /\ polls = 0
    /\ lastPoll = "none"
    /\ clean = TRUE
    /\ generationResult = NoJson
    /\ fetches = 0
    /\ imgResult = Failure(Undefined)
    /\ imageModelProvider \in ImageProviders
    /\ job = NoJob

\* generateImage has not been called.
ImageIdle ==
    /\ ipc = "idle"
    /\ apiKey = FALSE
    /\ submitted = "none"
    /\ assetFailures = 0
    /\ attempts = 0
    /\ sleeps = 0
    /\ slept = 0
    /\ polls = 0
    /\ lastPoll = "none"
    /\ clean = TRUE
    /\ generationResult = NoJson
    /\ fetches = 0
    /\ imgResult = Failure(Undefined)
    /\ imageModelProvider = "RENDERNET"
    /\ job = NoJob

NextImage ==
    \/ \E resp \in {"rejected", "notok", "noid", "ok"} : Submit(resp)
    \/ PollWait
    \/ LoopExit
    \/ PollRejected
    \/ PollNotOk
    \/ \E j \in StatusJsons : PollStatus(j)
    \/ AfterLoop
    \/ \E ok \in [1..generationResult.images -> BOOLEAN] : FetchAssets(ok)

\* ------------------------------------------------- the publishing loop
DEFAULT_IMAGE_INTERVAL_MIN == 120
DEFAULT_IMAGE_INTERVAL_MAX == 240

\* Time the image generation of a cycle takes, in ms: the poller's ceiling
\* (maxAttempts polls, pollInterval apart).
BodyTime == maxAttempts * pollInterval

\* A setting: absent, or a whole number of minutes.
Absent == [set |-> FALSE, val |-> 0]
IntervalSettings == {Absent} \cup {[set |-> TRUE, val |-> v] : v \in {1, 3}}

\* parseInt(runtime.getSetting(name) || String(default))
minutesOf(setting, default) == IF setting.set THEN setting.val ELSE default
minMinutes == minutesOf(minSetting, DEFAULT_IMAGE_INTERVAL_MIN)
maxMinutes == minutesOf(maxSetting, DEFAULT_IMAGE_INTERVAL_MAX)

\* Math.floor(x / y) for y > 0 and any integer x.
floorDiv(x, y) == IF x >= 0 THEN x \div y ELSE -((-x + y - 1) \div y)

\* Mutant: the minimum is not added to the scaled random number.
drawMinutes_unshifted(lo, hi, k) == floorDiv(k * (hi - lo + 1), RandomSteps)

\* Math.floor(Math.random() * (maxMinutes - minMinutes + 1)) + minMinutes,
\* with Math.random() = k / RandomSteps.
drawMinutes(lo, hi, k) == floorDiv(k * (hi - lo + 1), RandomSteps) + lo

\* Mutant: the cycle is due as soon as the delay has elapsed.
due_inclusive(n, last, d) == n >= last + d

\* now > lastPostTimestamp + delay
due(n, last, d) == n > last + d

\* Mutant: the next cycle is scheduled after a fixed quarter of an hour.
nextDelay_fixed(m) == 15 * 60 * 1000

\* const nextDelay = randomMinutes * 60 * 1000
nextDelay(m) == m * 60 * 1000

\* Mutant: the recovery retry comes after five minutes.
recoveryDelay_short == 5 * 60 * 1000

\* Retry after 15 minutes
recoveryDelay == 15 * 60 * 1000

\* Mutant: the callback is registered twice.
setTimeout_twice(ts, t, d) ==
    ts \o <<[at |-> t + d, delay |-> d], [at |-> t + d, delay |-> d]>>

\* setTimeout(() => generateImageLoop(), d) at time t.
setTimeout(ts, t, d) == Append(ts, [at |-> t + d, delay |-> d])

\* Mutant: the loop runs unless the setting is "false".
enableScheduledImages_default(setting) == setting # "false"

\* runtime.getSetting("ENABLE_SCHEDULED_IMAGES") === "true"
enableScheduledImages(setting) == setting = "true"

\* Mutant: the watermark is reset.
watermarkValue_reset(n, c) == 0

\* Mutant: the watermark is the time of the write.
watermarkValue_late(n, c) == c

\* The timestamp written to the cache: the cycle's `now`.
watermarkValue(n, c) == n

\* How postImageToTwitter can go, and for each whether the publish capability
\* (postTweet of a registered integration, sendTweet of the direct client) is
\* invoked and whether it succeeds.
PostOutcomes ==
    {"disabled", "nofile", "clientPosted", "clientThrows", "clientNoPostTweet",
     "noCredentials", "loginFailed", "loginThrows", "sent", "sendFailed",
     "sendThrows"}
invokesPublish(how) ==
    how \in {"clientPosted", "clientThrows", "sent", "sendFailed", "sendThrows"}
publishSucceeds(how) == how \in {"clientPosted", "sent"}

\* The last two entries of a sequence.
lastTwo(q) == IF Len(q) > 2 THEN SubSeq(q, Len(q) - 1, Len(q)) ELSE q

\* createScheduledImagePlugin().initialize: when the setting enables it the
\* loop is started and its first cycle called, which runs up to the read of
\* the watermark.
Initialize ==
    /\ lpc = "boot"
    /\ lpc' = IF enableScheduledImages(enableSetting) THEN "start" ELSE "off"
    /\ UNCHANGED <<enableSetting, minSetting, maxSetting, cache, cacheBefore,
                   clock, lastPostTimestamp, randomMinutes, delay, now, timers,
                   cycles, draws, steps, postHow, publishOk, pubTimes,
                   cycleEnd, allOk>>
    /\ UNCHANGED failed
    /\ UNCHANGED notLoopVars

\* The head of generateImageLoop once the read of the watermark has settled:
\* a rejected read goes to the catch block, which schedules the recovery
\* retry; otherwise the interval is drawn and the due-check made, and a cycle
\* that is not due schedules the next cycle at once.
CycleStart(getOk, k) ==
    /\ lpc = "start"
    /\ cycles' = cycles + 1
    /\ cacheBefore' = cache
    /\ steps' = <<>>
    /\ postHow' = "none"
    /\ publishOk' = FALSE
    /\ IF ~getOk
       THEN /\ timers' = setTimeout(timers, clock, recoveryDelay)
            /\ cycleEnd' = "error"
            /\ lpc' = "sleeping"
            /\ draws' = 0
            /\ allOk' = FALSE
            /\ UNCHANGED <<lastPostTimestamp, randomMinutes, delay, now>>
       ELSE /\ lastPostTimestamp' = IF cache.present THEN cache.timestamp ELSE 0
            /\ randomMinutes' = drawMinutes(minMinutes, maxMinutes, k)
            /\ draws' = 1
            /\ delay' = randomMinutes' * 60 * 1000
            /\ now' = clock
            /\ IF due(now', lastPostTimestamp', delay')
               THEN /\ lpc' = "prompt"
                    /\ cycleEnd' = "none"
                    /\ UNCHANGED timers
               ELSE /\ timers' = setTimeout(timers, clock, nextDelay(randomMinutes'))
                    /\ cycleEnd' = "normal"
                    /\ lpc' = "sleeping"
            /\ UNCHANGED allOk
    /\ UNCHANGED <<enableSetting, minSetting, maxSetting, cache, clock, pubTimes>>
    /\ failed' = "none"
    /\ UNCHANGED notLoopVars

\* generateImagePrompt; an error ends generateAndPostImage in its catch.
GeneratePrompt(ok) ==
    /\ lpc = "prompt"
    /\ steps' = Append(steps, "prompt")
    /\ lpc' = IF ok THEN "image" ELSE "mark"
    /\ allOk' = (allOk /\ ok)
    /\ UNCHANGED <<enableSetting, minSetting, maxSetting, cache, cacheBefore,
                   clock, lastPostTimestamp, randomMinutes, delay, now, timers,
                   cycles, draws, postHow, publishOk, pubTimes, cycleEnd>>
    /\ failed' = IF ok THEN failed ELSE "prompt"
    /\ UNCHANGED notLoopVars

\* Mutant: a result without data is logged and the body goes on.
afterImage_logged(ok) == "save"

\* if (!imageResult.success || !imageResult.data || ...) return;
afterImage(ok) == IF ok THEN "save" ELSE "mark"

\* generateImage, which takes BodyTime; a result without data ends the body.
GenerateImg(ok) ==
    /\ lpc = "image"
    /\ steps' = Append(steps, "image")
    /\ clock' = clock + BodyTime
    /\ lpc' = afterImage(ok)
    /\ allOk' = (allOk /\ ok)
    /\ UNCHANGED <<enableSetting, minSetting, maxSetting, cache, cacheBefore,
                   lastPostTimestamp, randomMinutes, delay, now, timers,
                   cycles, draws, postHow, publishOk, pubTimes, cycleEnd>>
    /\ failed' = IF ok THEN failed ELSE "image"
    /\ UNCHANGED notLoopVars

\* saveImageLocally; an error ends generateAndPostImage in its catch.
SaveImage(ok) ==
    /\ lpc = "save"
    /\ steps' = Append(steps, "save")
    /\ lpc' = IF ok THEN "post" ELSE "mark"
    /\ allOk' = (allOk /\ ok)
    /\ UNCHANGED <<enableSetting, minSetting, maxSetting, cache, cacheBefore,
                   clock, lastPostTimestamp, randomMinutes, delay, now, timers,
                   cycles, draws, postHow, publishOk, pubTimes, cycleEnd>>
    /\ failed' = IF ok THEN failed ELSE "save"
    /\ UNCHANGED notLoopVars

\* postImageToTwitter, which catches every error.
PostImage(how) ==
    /\ lpc = "post"
    /\ postHow' = how
    /\ steps' = IF invokesPublish(how) THEN steps \o <<"post", "publish">>
                ELSE Append(steps, "post")
    /\ pubTimes' = IF invokesPublish(how) THEN lastTwo(Append(pubTimes, clock))
                   ELSE pubTimes
    /\ publishOk' = publishSucceeds(how)
    /\ allOk' = (allOk /\ publishSucceeds(how))
    /\ lpc' = "mark"
    /\ UNCHANGED <<enableSetting, minSetting, maxSetting, cache, cacheBefore,
                   clock, lastPostTimestamp, randomMinutes, delay, now, timers,
                   cycles, draws, cycleEnd>>
    /\ UNCHANGED failed
    /\ UNCHANGED notLoopVars

\* runtime.cacheManager.set once generateAndPostImage has returned, and the
\* rest of the cycle: after the write the next cycle is scheduled; a rejected
\* write goes to the catch block, which schedules the recovery retry.
WriteWatermark(setOk) ==
    /\ lpc = "mark"
    /\ IF setOk
       THEN /\ cache' = [present |-> TRUE,
                         timestamp |-> watermarkValue(now, clock)]
            /\ timers' = setTimeout(timers, clock, nextDelay(randomMinutes))
            /\ cycleEnd' = "normal"
            /\ UNCHANGED allOk
       ELSE /\ timers' = setTimeout(timers, clock, recoveryDelay)
            /\ cycleEnd' = "error"
            /\ allOk' = FALSE
            /\ UNCHANGED cache
    /\ lpc' = "sleeping"
    /\ UNCHANGED <<enableSetting, minSetting, maxSetting, cacheBefore, clock,
                   lastPostTimestamp, randomMinutes, delay, now, cycles, draws,
                   steps, postHow, publishOk, pubTimes>>
    /\ UNCHANGED failed
    /\ UNCHANGED notLoopVars

\* The pending timer fires and calls generateImageLoop, which runs up to the
\* read of the watermark.
TimerFires ==
    /\ lpc = "sleeping"
    /\ timers # <<>>
    /\ cycles < MaxCycles
    /\ clock' = IF Head(timers).at > clock THEN Head(timers).at ELSE clock
    /\ timers' = Tail(timers)
    /\ lpc' = "start"
    /\ UNCHANGED <<enableSetting, minSetting, maxSetting, cache, cacheBefore,
                   lastPostTimestamp, randomMinutes, delay, now, cycles, draws,
                   steps, postHow, publishOk, pubTimes, cycleEnd, allOk>>
    /\ UNCHANGED failed
    /\ UNCHANGED notLoopVars

\* The process starts at some time after the epoch; the cache holds no
\* watermark, or the watermark of a publication three minutes ago.
StartTime == 2 * 24 * 60 * 60 * 1000

InitLoop ==
    /\ lpc = "boot"
    /\ enableSetting \in {"true", "false", "TRUE", "absent"}
    /\ minSetting \in IntervalSettings
    /\ maxSetting \in IntervalSettings
    /\ clock = StartTime
    /\ cache \in {[present |-> FALSE, timestamp |-> 0],
                  [present |-> TRUE, timestamp |-> StartTime - 3 * 60 * 1000]}
    /\ cacheBefore = cache
    /\ lastPostTimestamp = 0
    /\ randomMinutes = 0
    /\ delay = 0
    /\ now = 0
    /\ timers = <<>>
    /\ cycles = 0
    /\ draws = 0
    /\ steps = <<>>
    /\ postHow = "none"
    /\ publishOk = FALSE
    /\ pubTimes = <<>>
    /\ cycleEnd = "none"
    /\ allOk = TRUE
    /\ failed = "none"

\* The plugin is not loaded.
LoopIdle ==
    /\ lpc = "idle"
    /\ enableSetting = "absent"
    /\ minSetting = Absent
    /\ maxSetting = Absent
    /\ clock = 0
    /\ cache = [present |-> FALSE, timestamp |-> 0]
    /\ cacheBefore = cache
    /\ lastPostTimestamp = 0
    /\ randomMinutes = 0
    /\ delay = 0
    /\ now = 0
    /\ timers = <<>>
    /\ cycles = 0
    /\ draws = 0
    /\ steps = <<>>
    /\ postHow = "none"
    /\ publishOk = FALSE
    /\ pubTimes = <<>>
    /\ cycleEnd = "none"
    /\ allOk = TRUE
    /\ failed = "none"

NextLoop ==
    \/ Initialize
    \/ \E getOk \in BOOLEAN, k \in 0..(RandomSteps - 1) : CycleStart(getOk, k)
    \/ \E ok \in BOOLEAN : GeneratePrompt(ok)
    \/ \E ok \in BOOLEAN : GenerateImg(ok)
    \/ \E ok \in BOOLEAN : SaveImage(ok)
    \/ \E how \in PostOutcomes : PostImage(how)
    \/ \E setOk \in BOOLEAN : WriteWatermark(setOk)
    \/ TimerFires

\* ------------------------------------------------ one generation request
\* The characters of a context; a text is a sequence of characters.
Alphabet == {"a", "b"}
RECURSIVE TextsOfLen(_)
TextsOfLen(n) ==
    IF n = 0 THEN {<<>>}
    ELSE {Append(t, c) : t \in TextsOfLen(n - 1), c \in Alphabet}
Contexts == UNION {TextsOfLen(n) : n \in 0..MaxLen}

\* The tokenizer (js-tiktoken) is a byte-pair encoding: a token is a
\* sequence of characters, and the ranked merges join two adjacent tokens.
Merges == << << <<"a">>, <<"b">> >>, << <<"a", "b">>, <<"a">> >> >>

\* The lowest merge rank any adjacent pair of ts has, or 0.
rankIn(ts) ==
    LET ranks == {r \in 1..Len(Merges) :
                    \E i \in 1..(Len(ts) - 1) : <<ts[i], ts[i + 1]>> = Merges[r]}
    IN  IF ranks = {} THEN 0 ELSE CHOOSE r \in ranks : \A q \in ranks : r <= q

\* ts with the leftmost pair of rank r merged.
mergeAt(ts, r) ==
    LET i == CHOOSE j \in 1..(Len(ts) - 1) :
                 /\ <<ts[j], ts[j + 1]>> = Merges[r]
                 /\ \A k \in 1..(j - 1) : <<ts[k], ts[k + 1]>> # Merges[r]
    IN  SubSeq(ts, 1, i - 1) \o <<ts[i] \o ts[i + 1]>>
            \o SubSeq(ts, i + 2, Len(ts))

RECURSIVE bpe(_)
bpe(ts) == IF rankIn(ts) = 0 THEN ts ELSE bpe(mergeAt(ts, rankIn(ts)))

\* encoding.encode(context): the tokens of a text.
encode(text) == bpe([i \in 1..Len(text) |-> <<text[i]>>])

\* encoding.decode(tokens): the text of a token sequence.
RECURSIVE decode(_)
decode(ts) == IF ts = <<>> THEN <<>> ELSE Head(ts) \o decode(Tail(ts))

\* q.slice(-n) for n > 0: the last n elements, all of q when it has fewer.
sliceLast(q, n) == IF Len(q) <= n THEN q ELSE SubSeq(q, Len(q) - n + 1, Len(q))

GReturned(text) == [kind |-> "text", val |-> text]
GThrew(error) == [kind |-> "throw", val |-> error]
NoResult == [kind |-> "none", val |-> <<>>]

\* Mutant: the oldest tokens are kept.
truncatedTokens_head(tokens, maxTokens) == SubSeq(tokens, 1, maxTokens)

\* const truncatedTokens = tokens.slice(-maxTokens)
truncatedTokens(tokens, maxTokens) == sliceLast(tokens, maxTokens)

\* Mutant: the fallback keeps maxTokens characters.
fallback_short(context, maxTokens) == sliceLast(context, maxTokens)

\* The catch block of truncateTiktoken: context.slice(-maxTokens * 4)
fallback(context, maxTokens) == sliceLast(context, maxTokens * 4)

\* Mutant: a text within the limit is encoded and decoded all the same, and
\* the decoder drops the last character of a token longer than two.
withinLimit_recoded(context, tokens) ==
    decode([i \in 1..Len(tokens) |->
               IF Len(tokens[i]) > 2 THEN SubSeq(tokens[i], 1, 2) ELSE tokens[i]])

\* If already within limits, return unchanged.
withinLimit(context, tokens) == context

\* Mutant: the context is returned as it is.
truncateTiktoken_untrimmed(context, maxTokens, tk) == GReturned(context)

\* truncateTiktoken(model, context, maxTokens) under tokenizer behaviour tk.
truncateTiktoken(context, maxTokens, tk) ==
    IF tk = "encodeThrows" THEN GReturned(fallback(context, maxTokens))
    ELSE LET tokens == encode(context)
         IN  IF Len(tokens) <= maxTokens
             THEN GReturned(withinLimit(context, tokens))
             ELSE IF tk = "decodeThrows"
             THEN GReturned(fallback(context, maxTokens))
             ELSE GReturned(decode(truncatedTokens(tokens, maxTokens)))

\* Mutant: the budget is checked before the context.
trimTokens_budgetFirst(context, maxTokens, tk) ==
    IF maxTokens <= 0 THEN GThrew("maxTokens must be positive")
    ELSE IF context = <<>> THEN GReturned(<<>>)
    ELSE truncateTiktoken(context, maxTokens, tk)

\* trimTokens(context, maxTokens, runtime)
trimTokens(context, maxTokens, tk) ==
    IF context = <<>> THEN GReturned(<<>>)
    ELSE IF maxTokens <= 0 THEN GThrew("maxTokens must be positive")
    ELSE truncateTiktoken(context, maxTokens, tk)

\* The generation parameters; temperature and penalties in tenths.
Params ==
    {"temperature", "frequency_penalty", "presence_penalty", "maxInputTokens",
     "maxOutputTokens"}

\* getModelSettings(runtime.modelProvider, modelClass): the settings of the
\* provider for the tier.
modelSettings ==
    [temperature |-> 7, frequency_penalty |-> 4, presence_penalty |-> 4,
     maxInputTokens |-> 2, maxOutputTokens |-> 8]

\* A value of the character configuration: not supplied, or a number.
NotSupplied == [set |-> FALSE, val |-> 0]
Supplied(v) == [set |-> TRUE, val |-> v]

\* The character configurations followed: each parameter not supplied, 0 or
\* a positive value; the input limit also negative.
ModelConfigurations ==
    [temperature : {NotSupplied, Supplied(0), Supplied(3)},
     frequency_penalty : {NotSupplied, Supplied(0)},
     presence_penalty : {NotSupplied, Supplied(0)},
     maxInputTokens : {NotSupplied, Supplied(-1), Supplied(0), Supplied(1)},
     maxOutputTokens : {NotSupplied, Supplied(0), Supplied(5)}]

\* Mutant: a supplied value is used whatever it is.
orDefault_nullish(v, default) == IF v.set THEN v.val ELSE default

\* modelConfiguration?.x || modelSettings.x: a value that is not supplied, or
\* is 0, gives way to the default.
orDefault(v, default) == IF v.set /\ v.val # 0 THEN v.val ELSE default

\* The parameters generateText uses.
textParameters(cfg) == [x \in Params |-> orDefault(cfg[x], modelSettings[x])]

\* The parameters generateObject uses.
objectParameters(cfg) == [x \in Params |-> modelSettings[x]]

NoParameters == [x \in Params |-> 0]

\* A direct call of trimTokens.
CallTrimTokens ==
    /\ gpc = "start"
    /\ gfn = "trimTokens"
    /\ gresult' = trimTokens(gcontext, gmaxTokens, tokenizer)
    /\ gpc' = "done"
    /\ UNCHANGED <<gfn, gcontext, gmaxTokens, modelConfiguration, tokenizer,
                   used, prompt>>
    /\ UNCHANGED notGenVars

\* The head of generateText and of generateObject: the check of the context
\* and the resolution of the settings.
Resolve ==
    /\ gpc = "start"
    /\ gfn \in {"generateText", "generateObject"}
    /\ IF gcontext = <<>>
       THEN /\ gresult' = IF gfn = "generateText" THEN GReturned(<<>>)
                          ELSE GThrew("generateObject context is empty")
            /\ gpc' = "done"
            /\ UNCHANGED used
       ELSE /\ used' = IF gfn = "generateText"
                       THEN textParameters(modelConfiguration)
                       ELSE objectParameters(modelConfiguration)
            /\ gpc' = "trim"
            /\ UNCHANGED gresult
    /\ UNCHANGED <<gfn, gcontext, gmaxTokens, modelConfiguration, tokenizer,
                   prompt>>
    /\ UNCHANGED notGenVars

\* context = await trimTokens(context, max_context_length, runtime), inside
\* the try block whose catch rethrows.
Trim ==
    /\ gpc = "trim"
    /\ LET r == trimTokens(gcontext, used.maxInputTokens, tokenizer)
       IN  IF r.kind = "throw"
           THEN gresult' = r /\ gpc' = "done" /\ UNCHANGED prompt
           ELSE prompt' = r.val /\ gpc' = "dispatch" /\ UNCHANGED gresult
    /\ UNCHANGED <<gfn, gcontext, gmaxTokens, modelConfiguration, tokenizer,
                   used>>
    /\ UNCHANGED notGenVars

\* The provider strategy is called with prompt: context and answers.
Dispatch ==
    /\ gpc = "dispatch"
    /\ gresult' = GReturned(<<"a">>)
    /\ gpc' = "done"
    /\ UNCHANGED <<gfn, gcontext, gmaxTokens, modelConfiguration, tokenizer,
                   used, prompt>>
    /\ UNCHANGED notGenVars

\* The arguments of a direct trimTokens call; the other functions take the
\* limit from the settings.
MaxTokensArgs == -1..3

InitGen ==
    /\ gpc = "start"
    /\ gfn \in {"trimTokens", "generateText", "generateObject"}
    /\ gcontext \in Contexts
    /\ tokenizer \in {"ok", "encodeThrows", "decodeThrows"}
    /\ IF gfn = "trimTokens"
       THEN /\ gmaxTokens \in MaxTokensArgs
            /\ modelConfiguration = [x \in Params |-> NotSupplied]
       ELSE /\ gmaxTokens = 0
            /\ modelConfiguration \in ModelConfigurations
    /\ used = NoParameters
    /\ prompt = <<>>
    /\ gresult = NoResult

\* No generation request is running.
GenIdle ==
    /\ gpc = "idle"
    /\ gfn = "trimTokens"
    /\ gcontext = <<>>
    /\ gmaxTokens = 0
    /\ modelConfiguration = [x \in Params |-> NotSupplied]
    /\ tokenizer = "ok"
    /\ used = NoParameters
    /\ prompt = <<>>
    /\ gresult = NoResult

NextGen ==
    \/ CallTrimTokens
    \/ Resolve
    \/ Trim
    \/ Dispatch

\* ------------------------------------------------- postImageToTwitter
\* A registered service or client: whether its name or type contains
\* "twitter", and where it has a postTweet method: on itself ("own"), on its
\* client property ("client") or nowhere ("none").
Integrations ==
    {[twitter |-> FALSE, postTweet |-> "own"],
     [twitter |-> TRUE, postTweet |-> "own"],
     [twitter |-> TRUE, postTweet |-> "client"],
     [twitter |-> TRUE, postTweet |-> "none"]}
NoClient == [twitter |-> FALSE, postTweet |-> "none"]

\* The registries followed: up to two entries.
Registries ==
    {<<>>} \cup {<<x>> : x \in Integrations}
        \cup {<<x, y>> : x \in Integrations, y \in Integrations}

\* for (const service of services) { if (name or type matches) ... break }
RECURSIVE firstTwitter(_)
firstTwitter(q) ==
    IF q = <<>> THEN NoClient
    ELSE IF Head(q).twitter THEN Head(q)
    ELSE firstTwitter(Tail(q))

\* Mutant: the clients are probed before the services.
probe_clientsFirst(svcs, clts) ==
    IF firstTwitter(clts) # NoClient THEN firstTwitter(clts)
    ELSE firstTwitter(svcs)

\* The probe: all services first, then the clients.
probe(svcs, clts) ==
    IF firstTwitter(svcs) # NoClient THEN firstTwitter(svcs)
    ELSE firstTwitter(clts)

\* A published text: the characters kept of the caption, the ellipsis and the
\* hashtag that follow them.
NoText == [kept |-> 0, ellipsis |-> "", hashtag |-> ""]
textLength(t) ==
    t.kept + (IF t.ellipsis = "..." THEN 3 ELSE 0)
        + (IF t.hashtag = " #ElizaAI" THEN 9 ELSE 0)

\* The text of the integration path: truncate to maxCaptionLength = 200,
\* then add the hashtag.
clientTweetText(len) ==
    IF len > 200
    THEN [kept |-> 200 - 3, ellipsis |-> "...", hashtag |-> " #ElizaAI"]
    ELSE [kept |-> len, ellipsis |-> "", hashtag |-> " #ElizaAI"]

\* Mutant: the direct path keeps maxCaptionLength characters before the
\* ellipsis.
directTweetText_long(len) ==
    IF len > 200
    THEN [kept |-> 200, ellipsis |-> "...", hashtag |-> " #ElizaAI"]
    ELSE [kept |-> len, ellipsis |-> "", hashtag |-> " #ElizaAI"]

\* The text of the direct path.
directTweetText(len) ==
    IF len > 200
    THEN [kept |-> 200 - 3, ellipsis |-> "...", hashtag |-> " #ElizaAI"]
    ELSE [kept |-> len, ellipsis |-> "", hashtag |-> " #ElizaAI"]

\* TWITTER_USERNAME && ENABLE_IMAGE_POSTING !== "false"
twitterEnabled == username /\ enablePosting # "false"

\* postImageToTwitter up to its first await: the checks, the probe, and then
\* either the postTweet call of the chosen integration, or the start of the
\* login of the direct client.
PostImageToTwitter ==
    /\ ppc = "start"
    /\ IF ~twitterEnabled
       THEN /\ ppc' = "done" /\ outcome' = "disabled"
            /\ UNCHANGED <<twitterClient, path, tweetText, postTweets>>
       ELSE IF ~imageExists
       THEN /\ ppc' = "done" /\ outcome' = "nofile"
            /\ UNCHANGED <<twitterClient, path, tweetText, postTweets>>
       ELSE /\ twitterClient' = probe(services, clients)
            /\ IF twitterClient' # NoClient
               THEN /\ tweetText' = clientTweetText(caption)
                    /\ IF twitterClient'.postTweet \in {"own", "client"}
                       THEN /\ postTweets' = postTweets + 1
                            /\ path' = "integration"
                            /\ ppc' = "posting"
                            /\ UNCHANGED outcome
                       ELSE /\ ppc' = "done"
                            /\ outcome' = "clientNoPostTweet"
                            /\ UNCHANGED <<path, postTweets>>
               ELSE /\ path' = "direct"
                    /\ UNCHANGED <<tweetText, postTweets>>
                    /\ IF ~password
                       THEN ppc' = "done" /\ outcome' = "noCredentials"
                       ELSE ppc' = "login" /\ UNCHANGED outcome
    /\ UNCHANGED <<caption, username, password, enablePosting, imageExists,
                   services, clients, sendTweets>>
    /\ UNCHANGED notPostVars

\* The postTweet call resolves or rejects; a rejection is caught and logged.
PostTweetSettles(ok) ==
    /\ ppc = "posting"
    /\ ppc' = "done"
    /\ outcome' = IF ok THEN "clientPosted" ELSE "clientThrows"
    /\ UNCHANGED <<caption, username, password, enablePosting, imageExists,
                   services, clients, twitterClient, path, tweetText,
                   postTweets, sendTweets>>
    /\ UNCHANGED notPostVars

\* scraper.login and scraper.isLoggedIn settle; when logged in the text is
\* computed and sendTweet called.
LoginSettles(res) ==
    /\ ppc = "login"
    /\ IF res = "loggedIn"
       THEN /\ tweetText' = directTweetText(caption)
            /\ sendTweets' = sendTweets + 1
            /\ ppc' = "sending"
            /\ UNCHANGED outcome
       ELSE /\ ppc' = "done"
            /\ outcome' = IF res = "throws" THEN "loginThrows" ELSE "loginFailed"
            /\ UNCHANGED <<tweetText, sendTweets>>
    /\ UNCHANGED <<caption, username, password, enablePosting, imageExists,
                   services, clients, twitterClient, path, postTweets>>
    /\ UNCHANGED notPostVars

\* The sendTweet call settles: a truthy result, a falsy one, or a rejection.
SendTweetSettles(res) ==
    /\ ppc = "sending"
    /\ ppc' = "done"
    /\ outcome' = CASE res = "truthy" -> "sent"
                    [] res = "falsy" -> "sendFailed"
                    [] OTHER -> "sendThrows"
    /\ UNCHANGED <<caption, username, password, enablePosting, imageExists,
                   services, clients, twitterClient, path, tweetText,
                   postTweets, sendTweets>>
    /\ UNCHANGED notPostVars

InitPost ==
    /\ ppc = "start"
    /\ caption \in {0, 200, 201, 280}
    /\ username \in BOOLEAN
    /\ password \in BOOLEAN
    /\ enablePosting \in {"absent", "true", "false"}
    /\ imageExists \in BOOLEAN
    /\ services \in Registries
    /\ clients \in Registries
    /\ twitterClient = NoClient
    /\ path = "none"
    /\ tweetText = NoText
    /\ postTweets = 0
    /\ sendTweets = 0
    /\ outcome = "none"

\* postImageToTwitter has not been called.
PostIdle ==
    /\ ppc = "idle"
    /\ caption = 0
    /\ username = FALSE
    /\ password = FALSE
    /\ enablePosting = "absent"
    /\ imageExists = FALSE
    /\ services = <<>>
    /\ clients = <<>>
    /\ twitterClient = NoClient
    /\ path = "none"
    /\ tweetText = NoText
    /\ postTweets = 0
    /\ sendTweets = 0
    /\ outcome = "none"

NextPost ==
    \/ PostImageToTwitter
    \/ \E ok \in BOOLEAN : PostTweetSettles(ok)
    \/ \E res \in {"loggedIn", "notLoggedIn", "throws"} : LoginSettles(res)
    \/ \E res \in {"truthy", "falsy", "throws"} : SendTweetSettles(res)

\* ------------------------------------ two requests running interleaved
\* The model classes requested, and the settings table of the provider:
\* getModelSettings(runtime.modelProvider, modelClass) returns its entry.
ModelClasses == {"small", "large"}
settingsTable ==
    [c \in ModelClasses |->
        IF c = "large" THEN modelSettings
        ELSE [modelSettings EXCEPT !.maxInputTokens = 1,
                                   !.maxOutputTokens = 4]]

\* The character configurations of the two requests.
PairConfigurations ==
    {[x \in Params |-> NotSupplied],
     [[x \in Params |-> NotSupplied] EXCEPT !.temperature = Supplied(3),
                                            !.maxInputTokens = Supplied(1)],
     [[x \in Params |-> NotSupplied] EXCEPT !.maxOutputTokens = Supplied(5)]}
PairContexts == {<<"a", "b", "a">>, <<"b", "b">>}

\* The parameters a request derives from its table entry.
derived(fn, settings, cfg) ==
    IF fn = "generateText"
    THEN [x \in Params |-> orDefault(cfg[x], settings[x])]
    ELSE [x \in Params |-> settings[x]]

\* Mutant: the overrides are merged into the table entry.
tableAfter_inPlace(t, fn, c, cfg) ==
    [t EXCEPT ![c] = derived(fn, t[c], cfg)]

\* The table after a request has resolved its parameters: they are local
\* constants of the call.
tableAfter(t, fn, c, cfg) == t

\* What the provider transport answers: a text made from the request it got.
answer(pr, ps) == [prompt |-> pr, parameters |-> ps]
NoAnswer == [prompt |-> <<>>, parameters |-> NoParameters]

\* Request i resolves its parameters, up to the await of trimTokens.
PairResolve(i) ==
    /\ reqs[i].pc = "start"
    /\ reqs' = [reqs EXCEPT
                  ![i].used = derived(reqs[i].fn, table[reqs[i].modelClass],
                                      reqs[i].cfg),
                  ![i].pc = "trim"]
    /\ table' = tableAfter(table, reqs[i].fn, reqs[i].modelClass, reqs[i].cfg)
    /\ UNCHANGED notPairVars

\* trimTokens of request i settles, and the provider is called.
PairTrim(i) ==
    /\ reqs[i].pc = "trim"
    /\ reqs' = [reqs EXCEPT
                  ![i].prompt = trimTokens(reqs[i].context,
                                           reqs[i].used.maxInputTokens,
                                           "ok").val,
                  ![i].pc = "dispatch"]
    /\ UNCHANGED table
    /\ UNCHANGED notPairVars

\* The provider answers request i.
PairDispatch(i) ==
    /\ reqs[i].pc = "dispatch"
    /\ reqs' = [reqs EXCEPT
                  ![i].result = answer(reqs[i].prompt, reqs[i].used),
                  ![i].pc = "done"]
    /\ UNCHANGED table
    /\ UNCHANGED notPairVars

IdleRequest ==
    [pc |-> "idle", fn |-> "generateText", modelClass |-> "large",
     cfg |-> [x \in Params |-> NotSupplied], context |-> <<>>,
     used |-> NoParameters, prompt |-> <<>>, result |-> NoAnswer]

InitPair ==
    /\ table = settingsTable
    /\ reqs \in [{1, 2} ->
                   {[IdleRequest EXCEPT !.pc = "start", !.fn = f,
                                        !.modelClass = c, !.cfg = g,
                                        !.context = t] :
                       f \in {"generateText", "generateObject"},
                       c \in ModelClasses, g \in PairConfigurations,
                       t \in PairContexts}]

\* No pair of requests is running.
PairIdle ==
    /\ table = settingsTable
    /\ reqs = [i \in {1, 2} |-> IdleRequest]

NextPair ==
    \/ \E i \in {1, 2} : PairResolve(i)
    \/ \E i \in {1, 2} : PairTrim(i)
    \/ \E i \in {1, 2} : PairDispatch(i)

\* --------------------------------------------------------------- splitText
\* The contents split: texts of up to MaxContent characters.
SplitContents == UNION {TextsOfLen(n) : n \in 0..MaxContent}

\* The chunk sizes and bleeds followed: chunkSize > 0, 0 <= bleed < chunkSize.
ChunkSizes == 1..3

\* content.substring(a, b): an index below 0 counts as 0, one above the
\* length as the length, and the two are swapped when a > b.
substring(text, a, b) ==
    LET clamp(i) == IF i < 0 THEN 0 ELSE IF i > Len(text) THEN Len(text) ELSE i
        lo == IF clamp(a) <= clamp(b) THEN clamp(a) ELSE clamp(b)
        hi == IF clamp(a) <= clamp(b) THEN clamp(b) ELSE clamp(a)
    IN  SubSeq(text, lo + 1, hi)

\* const end = Math.min(start + chunkSize, content.length)
chunkEnd(st, size, len) == IF st + size < len THEN st + size ELSE len

\* let start = 0
CallSplitText ==
    /\ spc = "start"
    /\ start' = 0
    /\ chunks' = <<>>
    /\ spc' = "loop"
    /\ UNCHANGED <<content, chunkSize, bleed>>
    /\ UNCHANGED notSplitVars

\* One pass of while (start < content.length).
SplitPass ==
    /\ spc = "loop"
    /\ start < Len(content)
    /\ Len(chunks) < MaxChunks
    /\ LET end == chunkEnd(start, chunkSize, Len(content))
       IN  /\ chunks' = Append(chunks, substring(content, start, end))
           /\ start' = end - bleed
    /\ UNCHANGED <<spc, content, chunkSize, bleed>>
    /\ UNCHANGED notSplitVars

\* The loop condition fails: return chunks.
SplitReturn ==
    /\ spc = "loop"
    /\ ~(start < Len(content))
    /\ spc' = "done"
    /\ UNCHANGED <<content, chunkSize, bleed, start, chunks>>
    /\ UNCHANGED notSplitVars

InitSplit ==
    /\ spc = "start"
    /\ content \in SplitContents
    /\ chunkSize \in ChunkSizes
    /\ bleed \in 0..(chunkSize - 1)
    /\ start = 0
    /\ chunks = <<>>

\* splitText has not been called.
SplitIdle ==
    /\ spc = "idle"
    /\ content = <<>>
    /\ chunkSize = 1
    /\ bleed = 0
    /\ start = 0
    /\ chunks = <<>>

NextSplit ==
    \/ CallSplitText
    \/ SplitPass
    \/ SplitReturn

\* ------------------------------------------------ the provider switches
\* The providers generateText's switch has a case for.
textProviders ==
    {"OPENAI", "ALI_BAILIAN", "VOLENGINE", "LLAMACLOUD", "NANOGPT",
     "HYPERBOLIC", "TOGETHER", "NINETEEN_AI", "AKASH_CHAT_API", "LMSTUDIO",
     "NEARAI", "ETERNALAI", "GOOGLE", "MISTRAL", "ANTHROPIC", "CLAUDE_VERTEX",
     "GROK", "GROQ", "LLAMALOCAL", "REDPILL", "OPENROUTER", "OLLAMA",
     "HEURIST", "GAIANET", "ATOMA", "GALADRIEL", "INFERA", "VENICE", "NVIDIA",
     "DEEPSEEK", "LIVEPEER", "SECRETAI", "BEDROCK"}

\* The providers handleProvider's switch has a case for.
objectProviders ==
    {"OPENAI", "ETERNALAI", "ALI_BAILIAN", "VOLENGINE", "LLAMACLOUD",
     "TOGETHER", "NANOGPT", "AKASH_CHAT_API", "LMSTUDIO", "ANTHROPIC",
     "CLAUDE_VERTEX", "GROK", "GROQ", "LLAMALOCAL", "GOOGLE", "MISTRAL",
     "REDPILL", "OPENROUTER", "OLLAMA", "DEEPSEEK", "LIVEPEER", "SECRETAI",
     "NEARAI"}

\* The providers a runtime can name: those of either switch, and FAL, which
\* neither has a case for.
ProviderNames == textProviders \cup objectProviders \cup {"FAL"}

\* The switch of generateText: the strategy's answer, or the default case.
textSwitch(p, out) ==
    IF p \in textProviders THEN out ELSE "Unsupported provider"

\* The switch of handleProvider.
objectSwitch(p, out) ==
    IF p \in objectProviders THEN out ELSE "Unsupported provider"

\* generateText reaches its switch and the chosen strategy settles.
TextSwitch(out) ==
    /\ dpc = "start"
    /\ dfn = "generateText"
    /\ doutcome' = textSwitch(dprovider, out)
    /\ dpc' = "done"
    /\ UNCHANGED <<dfn, dprovider>>
    /\ UNCHANGED notDispatchVars

\* generateObject calls handleProvider and the chosen handler settles.
HandleProvider(out) ==
    /\ dpc = "start"
    /\ dfn = "handleProvider"
    /\ doutcome' = objectSwitch(dprovider, out)
    /\ dpc' = "done"
    /\ UNCHANGED <<dfn, dprovider>>
    /\ UNCHANGED notDispatchVars

InitDispatch ==
    /\ dpc = "start"
    /\ dfn \in {"generateText", "handleProvider"}
    /\ dprovider \in ProviderNames
    /\ doutcome = "none"

\* No dispatch is running.
DispatchIdle ==
    /\ dpc = "idle"
    /\ dfn = "generateText"
    /\ dprovider = "OPENAI"
    /\ doutcome = "none"

NextDispatch ==
    \/ \E out \in {"answered", "failed"} : TextSwitch(out)
    \/ \E out \in {"answered", "failed"} : HandleProvider(out)

\* ----------------------------------------------------------- specifications
InitRetryCall == InitRetry /\ ImageIdle /\ LoopIdle /\ GenIdle /\ PostIdle
    /\ PairIdle /\ SplitIdle /\ DispatchIdle
SpecRetry == InitRetryCall /\ [][NextRetry]_vars

InitImageCall == InitImage /\ RetryIdle /\ LoopIdle /\ GenIdle /\ PostIdle
    /\ PairIdle /\ SplitIdle /\ DispatchIdle
SpecImage == InitImageCall /\ [][NextImage]_vars

\* Every step of a call that can be taken is eventually taken: the event loop
\* runs each pending timer and continuation.
FairSpecRetry == SpecRetry /\ WF_vars(NextRetry)
FairSpecImage == SpecImage /\ WF_vars(NextImage)

InitLoopRun == InitLoop /\ RetryIdle /\ ImageIdle /\ GenIdle /\ PostIdle
    /\ PairIdle /\ SplitIdle /\ DispatchIdle
SpecLoop == InitLoopRun /\ [][NextLoop]_vars

InitGenCall == InitGen /\ RetryIdle /\ ImageIdle /\ LoopIdle /\ PostIdle
    /\ PairIdle /\ SplitIdle /\ DispatchIdle
SpecGen == InitGenCall /\ [][NextGen]_vars

InitPostCall == InitPost /\ RetryIdle /\ ImageIdle /\ LoopIdle /\ GenIdle
    /\ PairIdle /\ SplitIdle /\ DispatchIdle
SpecPost == InitPostCall /\ [][NextPost]_vars

InitPairCall ==
    InitPair /\ RetryIdle /\ ImageIdle /\ LoopIdle /\ GenIdle /\ PostIdle
        /\ SplitIdle /\ DispatchIdle
SpecPair == InitPairCall /\ [][NextPair]_vars

InitSplitCall ==
    InitSplit /\ RetryIdle /\ ImageIdle /\ LoopIdle /\ GenIdle /\ PostIdle
        /\ PairIdle /\ DispatchIdle
SpecSplit == InitSplitCall /\ [][NextSplit]_vars
\* The loop of splitText is synchronous: a pass that can run does run.
FairSpecSplit == SpecSplit /\ WF_vars(NextSplit)

InitDispatchCall ==
    InitDispatch /\ RetryIdle /\ ImageIdle /\ LoopIdle /\ GenIdle /\ PostIdle
        /\ PairIdle /\ SplitIdle
SpecDispatch == InitDispatchCall /\ [][NextDispatch]_vars

TypeOK ==
    /\ rpc \in {"idle", "start", "attempt", "wait", "delegating", "done",
               "thrown"}
    /\ ipc \in {"idle", "start", "loop", "poll", "after", "fetch", "done"}
    /\ attempts \in 0..maxAttempts
    /\ Len(hist) <= MaxAttempts

\* ------------------------------------------------------------------- claims
Last(q) == q[Len(q)]
IsValue(y) == y \notin {Null, Exception}

\* The attempts so far: all but the last gave unparsable text, the last a value.
NullsThenValue ==
    /\ hist # <<>>
    /\ \A k \in 1..(Len(hist) - 1) : hist[k] = Null
    /\ IsValue(Last(hist))

\* Every attempt so far failed (unparsable text or an exception).
AllFailed == hist # <<>> /\ \A k \in 1..Len(hist) : ~IsValue(hist[k])

\* C1: for every retrying entry point, when the first N attempts return text
\* that does not parse and attempt N+1 returns text that parses, the call
\* returns that value after exactly N waits, the k-th lasting 1000 * 2^(k-1) ms.
C1_BackoffOnEveryEntryPoint ==
    (ep \in EntryPoints /\ rpc = "done" /\ NullsThenValue) =>
        /\ result = Last(hist)
        /\ Len(waits) = Len(hist) - 1
        /\ \A k \in 1..Len(waits) : waits[k] = 1000 * 2^(k - 1)

\* C2: a caller of a retrying entry point never receives a failure: the entry
\* point never throws, and an attempt that raised an exception is followed by
\* a wait and another attempt.
C2_EntryPointNeverThrows ==
    ep \in EntryPoints =>
        /\ rpc # "thrown"
        /\ (hist # <<>> /\ Last(hist) = Exception) => rpc \in {"wait", "attempt"}

\* C3: generateText never retries: one invocation makes at most one provider
\* call, and when that call fails the error thrown to the caller is the
\* transport's error.
C3_GenerateTextNeverRetries ==
    /\ ep = "generateText" =>
          /\ calls <= 1
          /\ transport \in TransportErrors =>
                rpc = "thrown" /\ thrown = transport /\ calls = 1
    /\ ep \in EntryPoints => calls <= Len(hist)

C3_Witness ==
    /\ ep = "generateText"
    /\ rpc = "thrown"
    /\ thrown \in TransportErrors
    /\ calls = 1

\* C4: no retrying entry point has a maximum attempt count: while every
\* attempt so far has failed the call has neither returned nor thrown, it is
\* waiting for or about to make the next attempt, and after k failed attempts
\* attempt k+1 is made; a call that made an attempt returns only a value that
\* an attempt produced.
C4_NoMaximumAttemptCount ==
    /\ [](ep \in EntryPoints =>
            /\ AllFailed => (rpc \in {"wait", "attempt"} /\ result = Undefined)
            /\ (rpc = "done" /\ hist # <<>>) =>
                  (IsValue(Last(hist)) /\ result = Last(hist)))
    /\ \A k \in 1..(MaxAttempts - 1) :
          (ep \in EntryPoints /\ AllFailed /\ Len(hist) = k) ~> (Len(hist) = k + 1)

C4_Witness ==
    /\ ep \in EntryPoints
    /\ AllFailed
    /\ Len(hist) = MaxAttempts
    /\ rpc = "attempt"

\* C5: in one generateImage call the status polls never exceed the ceiling of
\* 30, each poll is preceded by one 2000 ms wait, and the call terminates with
\* a result once the ceiling is reached.
C5_PollBudget ==
    /\ [](/\ polls <= 30
          /\ attempts <= 30
          /\ sleeps = attempts
          /\ slept = 2000 * sleeps
          /\ polls = IF ipc = "poll" THEN sleeps - 1 ELSE sleeps)
    /\ (attempts = 30 /\ ipc \in {"loop", "poll", "after", "fetch"}) ~> (ipc = "done")
    /\ [](ipc = "done" => imgResult.success \in BOOLEAN)

C5_Witness == ipc = "done" /\ polls = 30 /\ slept = 60000

\* The polls so far reported in progress, and the latest reported completed.
CompletedPath == clean /\ lastPoll = "completed"

\* C6 as stated: a job whose polls report in progress k times and then
\* completed returns success with a non-empty list of data URLs.
C6_CompletedAlwaysSucceeds ==
    (ipc = "done" /\ CompletedPath) =>
        (imgResult.success /\ Len(imgResult.data) > 0)

\* C6: a job whose polls report in progress k times and then completed, whose
\* completed status carries a media list with at least one image item, each of
\* which is fetched successfully, returns success with one base64 data URL per
\* image item; with no media list, no image item or a failed image request it
\* returns success false.
C6_CompletedWithImagesSucceeds ==
    (ipc = "done" /\ CompletedPath) =>
        IF /\ generationResult.hasMedia
           /\ generationResult.images >= 1
           /\ assetFailures = 0
        THEN /\ imgResult.success
             /\ Len(imgResult.data) = generationResult.images
             /\ \A i \in 1..Len(imgResult.data) :
                   /\ imgResult.data[i].prefix = "data:image/png;base64,"
                   /\ imgResult.data[i].payload.encoding = "base64"
                   /\ imgResult.data[i].payload.of = blob(i)
        ELSE ~imgResult.success

C6_Witness ==
    /\ ipc = "done"
    /\ CompletedPath
    /\ polls >= 3
    /\ imgResult.success
    /\ Len(imgResult.data) = MaxMedia

\* C7: as soon as a status poll reports the job as failed, generateImage has
\* returned success false with an error, and no asset fetch was issued (the
\* call being over, no further poll is issued either).
C7_FailedEndsAtOnce ==
    lastPoll = "failed" =>
        /\ ipc = "done"
        /\ ~imgResult.success
        /\ imgResult.error = "RenderNet generation failed"
        /\ fetches = 0
        /\ polls = attempts

C7_Witness == lastPoll = "failed" /\ ipc = "done" /\ polls >= 2

\* C8: a job whose every status poll reports an in-progress state exhausts
\* the attempt budget and generateImage returns success false, whatever the
\* in-progress responses carry.
C8_TimeoutFails ==
    (ipc = "done" /\ clean /\ lastPoll = "pending" /\ polls = maxAttempts) =>
        ~imgResult.success

\* C9: a status poll that fails (a non-OK response or a failed request) does
\* not end the call: after such a poll the call goes on polling, and it ends
\* only once the attempt budget, of which the poll used one attempt, is spent.
C9_PollErrorSwallowed ==
    lastPoll \in {"notok", "rejected"} =>
        /\ polls = IF ipc = "poll" THEN attempts - 1 ELSE attempts
        /\ ipc = "done" => polls = maxAttempts

\* C10: when the job cannot be submitted (no API key, a non-OK submit response,
\* a response without a generation id), generateImage returns success false at
\* once and issues no status poll.
C10_SubmitFailure ==
    submitted \in {"nokey", "notok", "noid"} =>
        /\ ipc = "done"
        /\ ~imgResult.success
        /\ imgResult.error # Undefined
        /\ polls = 0
        /\ sleeps = 0
        /\ fetches = 0

C10_Witness == submitted = "noid" /\ ipc = "done"

\* ------------------------------------------------- the publishing loop
\* How often a cycle's steps hold the publish call.
RECURSIVE publishes(_)
publishes(q) ==
    IF q = <<>> THEN 0
    ELSE (IF Head(q) = "publish" THEN 1 ELSE 0) + publishes(Tail(q))

\* The current cycle has drawn its delay and has ended.
CycleDone == lpc = "sleeping" /\ draws = 1
\* The current cycle found the publication due.
WasDue == now > lastPostTimestamp + delay

C12_NotDueCycleOnlySchedules ==
    /\ (CycleDone /\ ~WasDue) =>
           /\ steps = <<>>
           /\ cache = cacheBefore
           /\ cycleEnd = "normal"
           /\ Len(timers) = 1
    /\ lpc \in {"prompt", "image", "save", "post", "mark"} => WasDue

C12_Witness ==
    /\ CycleDone /\ now = lastPostTimestamp + delay
    /\ steps = <<>>
    /\ Len(timers) = 1

\* C13: the watermark is written only in a cycle whose publish succeeded; a
\* cycle in which the prompt, the image, the local copy or the publish fails,
\* or posting is disabled or no publisher is usable, leaves it unchanged.
C13_WatermarkOnlyAfterPublish ==
    cache # cacheBefore => publishOk

\* C14: with a single loop instance, over any sequence of cycles, recovery
\* cycles included, two consecutive invocations of the publish capability are
\* never less than minMinutes minutes apart.
C14_PublishesMinApart ==
    (minMinutes <= maxMinutes /\ Len(pubTimes) >= 2) =>
        pubTimes[Len(pubTimes)] - pubTimes[Len(pubTimes) - 1]
            >= minMinutes * 60 * 1000

\* C15: after a cycle body that completes without an uncaught error, whether
\* or not it published, exactly one next cycle is scheduled, after the delay
\* drawn for the due-check; there is no second draw.
C15_NextCycleAfterDrawnDelay ==
    (lpc = "sleeping" /\ cycleEnd = "normal") =>
        /\ draws = 1
        /\ delay = randomMinutes * 60 * 1000
        /\ Len(timers) = 1
        /\ timers[1].delay = delay
        /\ timers[1].at = clock + delay

C15_Witness ==
    /\ lpc = "sleeping" /\ cycleEnd = "normal"
    /\ publishOk
    /\ timers = <<[at |-> clock + delay, delay |-> delay]>>
    /\ delay # 15 * 60 * 1000

\* C16: when the cycle body raises an uncaught error, at the read or at the
\* write of the watermark, exactly one next cycle is scheduled, after a fixed
\* 15 minutes, and that cycle does not update the watermark.
C16_ErrorSchedulesRecovery ==
    (lpc = "sleeping" /\ cycleEnd = "error") =>
        /\ Len(timers) = 1
        /\ timers[1].delay = 15 * 60 * 1000
        /\ timers[1].at = clock + 15 * 60 * 1000
        /\ cache = cacheBefore

C16_Witness ==
    /\ lpc = "sleeping" /\ cycleEnd = "error"
    /\ publishes(steps) = 1
    /\ timers = <<[at |-> clock + 900000, delay |-> 900000]>>
    /\ cache = cacheBefore

\* C17: with one started loop, cycles never overlap: at most one next-cycle
\* timer is pending, a timer is pending only when no cycle body is executing,
\* and between two cycles exactly one is pending.
C17_CyclesNeverOverlap ==
    /\ Len(timers) <= 1
    /\ timers # <<>> => lpc = "sleeping"
    /\ lpc = "sleeping" => Len(timers) = 1

C17_Witness ==
    /\ lpc = "sleeping"
    /\ Len(timers) = 1
    /\ cycles = MaxCycles

\* A cycle is past its draw: in its body, or ended without an uncaught error.
PastDraw ==
    \/ lpc \in {"prompt", "image", "save", "post", "mark"}
    \/ lpc = "sleeping" /\ cycleEnd = "normal"

\* C18 as stated: in every cycle a fresh interval is drawn, and for every
\* configured pair of interval settings (120 and 240 when absent) the drawn
\* value is a whole number of minutes m with minMinutes <= m <= maxMinutes,
\* and the delay is m * 60 * 1000 ms.
C18_DrawWithinSettings ==
    PastDraw =>
        /\ draws = 1
        /\ randomMinutes \in minMinutes..maxMinutes
        /\ delay = randomMinutes * 60 * 1000

\* C18 amended: in every cycle a fresh interval is drawn, and for every pair
\* of interval settings that are whole numbers with minimum <= maximum (120
\* and 240 when absent) the drawn value is a whole number of minutes m with
\* minMinutes <= m <= maxMinutes; the delay is always m * 60 * 1000 ms.
C18_DrawWithinOrderedSettings ==
    PastDraw =>
        /\ draws = 1
        /\ minMinutes <= maxMinutes => randomMinutes \in minMinutes..maxMinutes
        /\ delay = randomMinutes * 60 * 1000

C18_Witness ==
    /\ PastDraw
    /\ minSetting.set /\ maxSetting.set
    /\ minMinutes < maxMinutes
    /\ randomMinutes = maxMinutes
    /\ cycles >= 2

\* C19: while every cycle succeeds, the time between two consecutive posts is
\* never more than IMAGE_POST_INTERVAL_MAX minutes, plus the time the cycle
\* bodies take.
C19_PostsAtMostMaxApart ==
    (allOk /\ minMinutes <= maxMinutes /\ Len(pubTimes) >= 2) =>
        pubTimes[Len(pubTimes)] - pubTimes[Len(pubTimes) - 1]
            <= maxMinutes * 60 * 1000 + MaxCycles * BodyTime

\* C20: the loop is started only if ENABLE_SCHEDULED_IMAGES equals "true" at
\* plugin initialization; otherwise no cycle ever runs, no image is
\* generated, nothing is published, no timer is set and the watermark is
\* never written.
C20_OnlyStartedWhenEnabled ==
    /\ enableSetting # "true" =>
           /\ lpc \in {"boot", "off"}
           /\ cycles = 0
           /\ steps = <<>>
           /\ pubTimes = <<>>
           /\ timers = <<>>
           /\ cache = cacheBefore
    /\ lpc \notin {"boot", "off"} => enableSetting = "true"

C20_Witness ==
    /\ lpc = "off"
    /\ enableSetting = "TRUE"
    /\ cycles = 0

\* ------------------------------------------------ one generation request
\* A direct call of trimTokens has ended.
TrimDone == gfn = "trimTokens" /\ gpc = "done"
\* The token count of a text.
tokenCount(text) == Len(encode(text))
\* t is the tail of u.
IsSuffix(t, u) ==
    Len(t) <= Len(u) /\ t = SubSeq(u, Len(u) - Len(t) + 1, Len(u))

\* C21: for all maxTokens > 0 and every text T whose token count is at most
\* maxTokens, trimTokens(T, maxTokens) returns T unchanged.
C21_WithinLimitUnchanged ==
    (TrimDone /\ gmaxTokens > 0 /\ tokenizer # "encodeThrows"
        /\ tokenCount(gcontext) <= gmaxTokens) =>
        gresult = [kind |-> "text", val |-> gcontext]

C21_Witness ==
    /\ TrimDone
    /\ tokenizer = "ok"
    /\ tokenCount(gcontext) = 2 /\ gmaxTokens = 2
    /\ Len(gcontext) = 5
    /\ gresult.val = gcontext

\* C22: for every text T whose token count exceeds maxTokens > 0,
\* trimTokens(T, maxTokens) is the decoding of exactly the last maxTokens
\* tokens of T, a tail of T whose token count is at most maxTokens and never
\* more than that of T.
C22_KeepsLastTokens ==
    (TrimDone /\ gmaxTokens > 0 /\ tokenizer = "ok"
        /\ tokenCount(gcontext) > gmaxTokens) =>
        LET tokens == encode(gcontext)
            kept == [i \in 1..gmaxTokens |-> tokens[Len(tokens) - gmaxTokens + i]]
        IN  /\ gresult.kind = "text"
            /\ gresult.val = decode(kept)
            /\ IsSuffix(gresult.val, gcontext)
            /\ tokenCount(gresult.val) <= gmaxTokens
            /\ tokenCount(gresult.val) <= tokenCount(gcontext)

C22_Witness ==
    /\ TrimDone
    /\ tokenizer = "ok"
    /\ gmaxTokens = 2
    /\ tokenCount(gcontext) = 4
    /\ gresult.val # <<>>
    /\ Len(gresult.val) < Len(gcontext)
    /\ tokenCount(gresult.val) = 2

\* C23 as stated: trimTokens("", N) returns "" for any N > 0, and
\* trimTokens(T, maxTokens) fails with an invalid-argument error for any text
\* T when maxTokens <= 0.
C23_EmptyAndZeroBudget ==
    TrimDone =>
        /\ (gcontext = <<>> /\ gmaxTokens > 0) =>
              gresult = [kind |-> "text", val |-> <<>>]
        /\ gmaxTokens <= 0 => gresult.kind = "throw"

\* C23 amended: trimTokens("", N) returns "" for any N, positive or not, and
\* trimTokens(T, maxTokens) fails with "maxTokens must be positive" for any
\* non-empty text T when maxTokens <= 0.
C23_EmptyBeforeBudget ==
    TrimDone =>
        /\ gcontext = <<>> => gresult = [kind |-> "text", val |-> <<>>]
        /\ (gcontext # <<>> /\ gmaxTokens <= 0) =>
              gresult = [kind |-> "throw", val |-> "maxTokens must be positive"]

C23_Witness ==
    /\ TrimDone
    /\ gcontext # <<>>
    /\ gmaxTokens = 0
    /\ gresult.kind = "throw"

Resolved ==
    gfn \in {"generateText", "generateObject"} /\ gpc \in {"trim", "dispatch", "done"}
        /\ gcontext # <<>>

\* C25: settings resolution follows the precedence character override >
\* provider setting > static default: for temperature and the two penalties
\* every value the character configuration supplies, 0 included, is the one
\* used, and for the token limits every positive value it supplies; where
\* none is supplied the value of the model settings is used.
C25_CharacterOverrideWins ==
    Resolved =>
        \A x \in Params :
            LET v == modelConfiguration[x]
                allowed == IF x \in {"maxInputTokens", "maxOutputTokens"}
                           THEN v.val > 0 ELSE v.val >= 0
            IN  /\ (v.set /\ allowed) => used[x] = v.val
                /\ ~v.set => used[x] = modelSettings[x]

\* A generateText or generateObject request has handed its prompt to the
\* provider transport.
PromptHanded ==
    /\ gfn \in {"generateText", "generateObject"}
    /\ \/ gpc = "dispatch"
       \/ gpc = "done" /\ gresult.kind = "text" /\ gcontext # <<>>

\* C27 as stated: the prompt handed to the provider transport is always the
\* result of trimming the caller's context to the maxInputTokens of the
\* resolved settings, so its token count never exceeds that budget, for both
\* generateText and generateObject.
C27_PromptWithinBudget ==
    PromptHanded =>
        /\ IsSuffix(prompt, gcontext)
        /\ tokenCount(prompt) <= used.maxInputTokens

\* C27 amended: the prompt handed to the provider transport is always a tail
\* of the caller's context; while the tokenizer works its token count never
\* exceeds the maxInputTokens the request resolved, and it is the whole
\* context when that fits; when the tokenizer fails it is the last
\* 4 * maxInputTokens characters of the context, whatever their token count.
C27_PromptWithinBudgetWhenTokenizerWorks ==
    PromptHanded =>
        LET budget == used.maxInputTokens
            n == Len(gcontext)
            tail == IF n <= 4 * budget THEN gcontext
                    ELSE SubSeq(gcontext, n - 4 * budget + 1, n)
        IN  /\ budget > 0
            /\ IsSuffix(prompt, gcontext)
            /\ tokenizer = "ok" => tokenCount(prompt) <= budget
            /\ (tokenizer # "encodeThrows" /\ tokenCount(gcontext) <= budget) =>
                  prompt = gcontext
            /\ (\/ tokenizer = "encodeThrows"
                \/ tokenizer = "decodeThrows" /\ tokenCount(gcontext) > budget) =>
                  prompt = tail

C27_Witness ==
    /\ PromptHanded
    /\ gfn = "generateObject"
    /\ gpc = "done"
    /\ tokenizer = "ok"
    /\ tokenCount(gcontext) > used.maxInputTokens
    /\ tokenCount(prompt) = used.maxInputTokens

\* ------------------------------------------------- configuration errors
\* C26: each generateText invocation with a non-empty context and a supported
\* provider performs exactly one outbound call to the provider transport,
\* for every provider strategy, the local (LLAMALOCAL) one included.
C26_ExactlyOneOutboundCall ==
    (ep = "generateText" /\ ~ctxEmpty
        /\ provider \in {"OPENAI", "LLAMALOCAL"}
        /\ (provider = "LLAMALOCAL" => textService # "none")) =>
        /\ [](calls <= 1)
        /\ <>(rpc \in {"done", "thrown"} /\ calls = 1)

\* C28: configuration errors are fatal and returned immediately: when the
\* provider has no registered strategy, every generation entry point, the
\* retrying wrappers included, stops and surfaces the error to its caller
\* without retrying.
C28_ConfigurationErrorsAreFatal ==
    (provider \in {"FAL", "UNKNOWN"} /\ ~ctxEmpty) =>
        /\ rpc # "done"
        /\ hist # <<>> => rpc = "thrown"
        /\ waits = <<>>
        /\ Len(hist) <= 1

\* ---- postImageToTwitter
PostDone == ppc = "done"
PublishCalled == postTweets > 0 \/ sendTweets > 0

\* The text the caption should be published as.
ExpectedText ==
    [kept |-> IF caption <= 200 THEN caption ELSE 197,
     ellipsis |-> IF caption <= 200 THEN "" ELSE "...",
     hashtag |-> " #ElizaAI"]

\* Some registered integration whose name or type matches has a postTweet
\* method, on itself or on its client.
RECURSIVE anyCapable(_)
anyCapable(q) ==
    IF q = <<>> THEN FALSE
    ELSE (Head(q).twitter /\ Head(q).postTweet # "none") \/ anyCapable(Tail(q))

\* C29: on both publish paths the text handed to the publish call is the
\* caption unchanged when it has at most 200 characters, otherwise its first
\* 197 characters followed by "...", and then " #ElizaAI"; it never has more
\* than 209 characters.
C29_PublishedTextTruncated ==
    /\ PublishCalled => tweetText = ExpectedText
    /\ textLength(tweetText) <= 209

\* A caption of 280 characters was sent on the direct path as 209 characters.
C29_Witness ==
    /\ sendTweets = 1
    /\ caption = 280
    /\ textLength(tweetText) = 209

\* C30: when posting is enabled and the image file exists, the first
\* matching service is chosen, else the first matching client; a chosen
\* integration's postTweet is called exactly once; the direct client is used
\* whenever no registered integration has a postTweet; exactly one of the
\* two paths is attempted.
C30_OnePathAlwaysAttempted ==
    (PostDone /\ twitterEnabled /\ imageExists) =>
        /\ twitterClient =
               (IF firstTwitter(services) # NoClient
                THEN firstTwitter(services) ELSE firstTwitter(clients))
        /\ (path = "integration") => (postTweets = 1 /\ sendTweets = 0)
        /\ (path = "direct") => (postTweets = 0 /\ sendTweets <= 1)
        /\ (~anyCapable(services) /\ ~anyCapable(clients)) => path = "direct"
        /\ path \in {"integration", "direct"}


\* ---- generateImage and the configured image provider
\* What a finished call returns, from the provider's responses alone.
ResultOfResponses ==
    CASE submitted = "nokey" -> Failure("RENDERNET_API_KEY is not set")
      [] submitted = "rejected" -> Failure("fetch failed")
      [] submitted = "notok" -> Failure("RenderNet API error")
      [] submitted = "noid" ->
            Failure("Invalid response format from RenderNet AI")
      [] OTHER ->
            IF lastPoll = "rejected" THEN Failure("fetch failed")
            ELSE IF lastPoll = "failed"
            THEN Failure("RenderNet generation failed")
            ELSE IF ~generationResult.defined \/ ~generationResult.hasMedia
            THEN Failure("Failed to get valid generation result from RenderNet")
            ELSE IF assetFailures > 0 THEN Failure("Failed to fetch image")
            ELSE IF generationResult.images = 0
            THEN Failure("No images generated by RenderNet")
            ELSE Success([i \in 1..generationResult.images |-> dataUrl(i)])

ownParameters(i) ==
    derived(reqs[i].fn, settingsTable[reqs[i].modelClass], reqs[i].cfg)
ownAnswer(i) ==
    answer(trimTokens(reqs[i].context, ownParameters(i).maxInputTokens,
                      "ok").val,
           ownParameters(i))

\* C32: whatever the interleaving of two requests, the static settings table
\* is never changed, and each request's derived parameters and its result
\* are those its own arguments give.
C32_RequestsIndependent ==
    /\ table = settingsTable
    /\ \A i \in {1, 2} :
          /\ reqs[i].pc \in {"trim", "dispatch", "done"} =>
                reqs[i].used = ownParameters(i)
          /\ reqs[i].pc = "done" => reqs[i].result = ownAnswer(i)

\* Two requests of the same class, one with an override and one without,
\* both finished, each with its own parameters.
C32_Witness ==
    /\ reqs[1].pc = "done" /\ reqs[2].pc = "done"
    /\ reqs[1].modelClass = reqs[2].modelClass
    /\ reqs[1].fn = "generateText" /\ reqs[1].cfg.temperature = Supplied(3)
    /\ reqs[2].cfg.temperature = NotSupplied
    /\ reqs[1].used.temperature = 3
    /\ reqs[2].used.temperature = 7


\* ---- the steps of a cycle
StepOrder == <<"prompt", "image", "save", "post", "publish">>

\* C33: the steps of a cycle run in the order prompt, image, save, post,
\* publish, each at most once; no step runs after a step that failed, so a
\* failed or timed-out image job is not run again in the cycle and is not
\* followed by a publish.
C33_StepsInOrder ==
    /\ Len(steps) <= Len(StepOrder)
    /\ steps = SubSeq(StepOrder, 1, Len(steps))
    /\ failed # "none" => (steps # <<>> /\ steps[Len(steps)] = failed)
    /\ failed = "image" =>
          /\ \A i \in 1..Len(steps) : steps[i] # "publish"
          /\ Cardinality({i \in 1..Len(steps) : steps[i] = "image"}) = 1

\* A due cycle whose image job failed has ended after two steps.
C33_Witness ==
    /\ failed = "image"
    /\ lpc = "sleeping"
    /\ steps = <<"prompt", "image">>


\* ---- stop sequences
\* C34: every outbound call of generateText carries the stop sequences the
\* caller supplied, or those of the settings when the caller supplied none,
\* and each of them is a text string.
C34_StopSequencesForwarded ==
    calls > 0 =>
        /\ sentStop.given
        /\ sentStop.seqs = resolvedStop(stopArg)
        /\ \A i \in 1..Len(sentStop.seqs) : sentStop.seqs[i].type = "string"


\* ---- splitText
RECURSIVE joined(_)
joined(q) == IF q = <<>> THEN <<>> ELSE Head(q) \o joined(Tail(q))

\* C35: for every content, every chunkSize > 0 and every bleed with
\* 0 <= bleed < chunkSize, splitText returns; no chunk has more than
\* chunkSize characters; with bleed = 0 the chunks concatenated are the
\* content.
C35_SplitTextTerminates ==
    /\ <>(spc = "done")
    /\ [](\A i \in 1..Len(chunks) : Len(chunks[i]) <= chunkSize)
    /\ []((spc = "done" /\ bleed = 0) => joined(chunks) = content)


\* ---- delegation to the text generation service
\* C36: with the LLAMALOCAL provider and TextGenerationService registered, a
\* call ends (it returns or throws), and the nesting of generateText and
\* queueTextCompletion stays below the depth followed.
C36_DelegationTerminates ==
    (provider = "LLAMALOCAL" /\ textService = "TextGenerationService") =>
        /\ <>(rpc \in {"done", "thrown"})
        /\ [](depth < MaxDepth)


\* ---- empty context
\* C37: a retrying entry point called with an empty context (and a provider
\* that has settings) returns an empty or null value: no pass of its retry
\* loop runs, it does not sleep and it makes no outbound call.
C37_EmptyContextReturnsAtOnce ==
    (ep \in EntryPoints /\ ctxEmpty /\ getModelSettings(provider).ok) =>
        /\ hist = <<>>
        /\ waits = <<>>
        /\ calls = 0
        /\ rpc # "thrown"
        /\ rpc = "done" => result \in {Null, "[]"}


\* ---- the watermark
\* C38: the persisted watermark never exceeds the current time, and every
\* write of it stores the `now` of the current cycle, which passed the
\* due-check, and does not lower it.
C38_WatermarkMonotonic ==
    /\ [](cache.present => cache.timestamp <= clock)
    /\ [][cache' # cache =>
            /\ cache'.present
            /\ cache'.timestamp = now
            /\ due(now, lastPostTimestamp, delay)
            /\ cache.present => cache'.timestamp >= cache.timestamp]_vars

\* A later due cycle has replaced an earlier watermark by its own `now`.
C38_Witness ==
    /\ lpc = "sleeping"
    /\ cacheBefore.present
    /\ cache.present
    /\ cache.timestamp = now
    /\ cache.timestamp > cacheBefore.timestamp


\* ---- the provider switches
\* C39: for every provider generateText has a strategy for, handleProvider
\* has one too: it does not end with the unsupported-provider error.
C39_ObjectDispatcherCoversText ==
    (dpc = "done" /\ dfn = "handleProvider" /\ dprovider \in textProviders) =>
        doutcome # "Unsupported provider"


\* ---- falsy values
\* C40: when the provider's answer parses to false (generateTrueOrFalse) or
\* to an empty array (generateTextArray, generateObjectArray), the entry
\* point returns that value on that attempt, without a further attempt.
C40_FalsyValueReturned ==
    (ep \in {"generateTrueOrFalse", "generateTextArray", "generateObjectArray"}
        /\ transport = "negative") =>
        /\ rpc = "done"
        /\ result = (IF ep = "generateTrueOrFalse" THEN "false" ELSE "[]")
        /\ Last(hist) = result
        /\ Len(waits) = Len(hist) - 1

\* generateTrueOrFalse returned false on its second attempt.
C40_Witness ==
    /\ ep = "generateTrueOrFalse"
    /\ rpc = "done"
    /\ result = "false"
    /\ hist = <<Null, "false">>

====
